---------------------------- MODULE Spec2Model ----------------------------
(***************************************************************************)
(* Model of mpacklog's LogServer (src/mpacklog/log_server.py): the three   *)
(* kinds of asyncio tasks unpack(), listen() and serve(), the stop()       *)
(* coroutine, and their environment: the logger that appends               *)
(* MessagePack-encoded values to the log file and the clients that talk to *)
(* the socket; and of the loggers on their own (async_logger.py,           *)
(* python/logger.py, sync_logger.py) with the reader of their files        *)
(* (read_log.py).                                                          *)
(*                                                                         *)
(* asyncio runs the tasks on one thread: a task runs without interruption  *)
(* from one suspending await to the next, so each action below is the code *)
(* between two such awaits.                                                *)
(*                                                                         *)
(* Bytes are naturals 0..255.  Values are records [kind, val]: an integer  *)
(* ("int"), a boolean ("bool"), a string ("str", its bytes), a sequence    *)
(* ("arr"), a mapping ("map", a sequence of <<key, value>> pairs) or None  *)
(* ("nil").  The codec is the subset of MessagePack these values need:     *)
(* nil, false, true, positive fixint, uint 8, fixstr, fixarray, fixmap.    *)
(***************************************************************************)
EXTENDS Naturals, Sequences, FiniteSets, TLC

(***************************************************************************)
(* Bounds of the model.                                                    *)
(***************************************************************************)
\* Values ever written to the log file (before and after the server starts).
MaxLogged == 3
\* Values already in the log file when the server is created.
MaxPre == 2
\* Clients, each with one connection at a time, besides the loopback
\* connection of stop().
MaxClients == 2
\* Connections of all the clients together.
MaxConnects == 2
\* Sends of all the clients together.
MaxSends == 2
\* Bytes one file.read() returns at most; 4096 in the source, scaled down to
\* two records and a byte so that a poll can return several records as well
\* as a part of one.
ChunkSize == 9
\* Values written to the log file while a client hangs.
MaxHangLogged == 1
\* Messages put in a logger.
MaxPuts == 2
\* Calls of write() and flush() of a logger.
MaxCalls == 2
\* The largest chunk_size that read_log is called with.
MaxReadChunk == 8
\* Number of fields that filter_fields is asked for, at most.
MaxFields == 2
\* The time at which the clock of the plot stops, in seconds.
MaxTime == 5
\* Number of calls of PlotItem.handle_update.
MaxUpdates == 4

(***************************************************************************)
(* Values and the MessagePack codec.                                       *)
(***************************************************************************)
NilVal == [kind |-> "nil", val |-> <<>>]
IntVal(n) == [kind |-> "int", val |-> n]
StrVal(bytes) == [kind |-> "str", val |-> bytes]
MapVal(pairs) == [kind |-> "map", val |-> pairs]
BoolVal(b) == [kind |-> "bool", val |-> b]
ArrVal(items) == [kind |-> "arr", val |-> items]

\* The dictionary {}.
EmptyMap == MapVal(<<>>)
\* The dictionary {"a": n}.
Rec(n) == MapVal(<< <<StrVal(<<97>>), IntVal(n)>> >>)

\* isinstance(unpacked, dict)
IsDict(v) == v.kind = "map"

RECURSIVE Pack(_)
RECURSIVE PackPairs(_)
RECURSIVE PackItems(_)
\* msgpack.Packer.pack: nil 0xc0, false 0xc2, true 0xc3, positive fixint
\* 0x00..0x7f, uint 8 0xcc and the byte, fixstr 0xa0+len, fixarray 0x90+len
\* followed by the items, fixmap 0x80+len followed by the keys and values.
Pack(v) ==
    CASE v.kind = "nil" -> <<192>>
      [] v.kind = "bool" -> IF v.val THEN <<195>> ELSE <<194>>
      [] v.kind = "int" -> IF v.val < 128 THEN <<v.val>> ELSE <<204, v.val>>
      [] v.kind = "str" -> <<160 + Len(v.val)>> \o v.val
      [] v.kind = "arr" -> <<144 + Len(v.val)>> \o PackItems(v.val)
      [] v.kind = "map" -> <<128 + Len(v.val)>> \o PackPairs(v.val)

PackPairs(pairs) ==
    IF pairs = <<>> THEN <<>>
    ELSE Pack(pairs[1][1]) \o Pack(pairs[1][2]) \o PackPairs(Tail(pairs))

PackItems(items) ==
    IF items = <<>> THEN <<>> ELSE Pack(items[1]) \o PackItems(Tail(items))

RECURSIVE UnpackOne(_)
RECURSIVE UnpackPairs(_, _)
RECURSIVE UnpackItems(_, _)
\* One step of msgpack.Unpacker's iteration over its buffer: "ok" with the
\* value and the number of bytes it took, "more" when the buffer ends inside
\* a value (the iteration stops and the bytes stay buffered), "bad" for a
\* leading byte outside the subset.
UnpackOne(buf) ==
    IF buf = <<>> THEN [st |-> "more"]
    ELSE LET b == buf[1] IN
         IF b < 128 THEN [st |-> "ok", val |-> IntVal(b), n |-> 1]
         ELSE IF b < 144
         THEN LET r == UnpackPairs(Tail(buf), b - 128) IN
              IF r.st = "ok"
              THEN [st |-> "ok", val |-> MapVal(r.val), n |-> r.n + 1]
              ELSE [st |-> r.st]
         ELSE IF b < 160
         THEN LET r == UnpackItems(Tail(buf), b - 144) IN
              IF r.st = "ok"
              THEN [st |-> "ok", val |-> ArrVal(r.val), n |-> r.n + 1]
              ELSE [st |-> r.st]
         ELSE IF b >= 160 /\ b < 192
         THEN IF Len(buf) >= 1 + (b - 160)
              THEN [st |-> "ok", val |-> StrVal(SubSeq(buf, 2, 1 + (b - 160))),
                    n |-> 1 + (b - 160)]
              ELSE [st |-> "more"]
         ELSE IF b = 192 THEN [st |-> "ok", val |-> NilVal, n |-> 1]
         ELSE IF b \in {194, 195}
         THEN [st |-> "ok", val |-> BoolVal(b = 195), n |-> 1]
         ELSE IF b = 204
         THEN IF Len(buf) >= 2
              THEN [st |-> "ok", val |-> IntVal(buf[2]), n |-> 2]
              ELSE [st |-> "more"]
         ELSE [st |-> "bad"]

UnpackPairs(buf, k) ==
    IF k = 0 THEN [st |-> "ok", val |-> <<>>, n |-> 0]
    ELSE LET key == UnpackOne(buf) IN
         IF key.st # "ok" THEN [st |-> key.st]
         ELSE LET item == UnpackOne(SubSeq(buf, key.n + 1, Len(buf))) IN
              IF item.st # "ok" THEN [st |-> item.st]
              ELSE LET more == UnpackPairs(
                                   SubSeq(buf, key.n + item.n + 1, Len(buf)),
                                   k - 1) IN
                   IF more.st # "ok" THEN [st |-> more.st]
                   ELSE [st |-> "ok",
                         val |-> << <<key.val, item.val>> >> \o more.val,
                         n |-> key.n + item.n + more.n]

UnpackItems(buf, k) ==
    IF k = 0 THEN [st |-> "ok", val |-> <<>>, n |-> 0]
    ELSE LET item == UnpackOne(buf) IN
         IF item.st # "ok" THEN [st |-> item.st]
         ELSE LET more == UnpackItems(SubSeq(buf, item.n + 1, Len(buf)),
                                      k - 1) IN
              IF more.st # "ok" THEN [st |-> more.st]
              ELSE [st |-> "ok", val |-> <<item.val>> \o more.val,
                    n |-> item.n + more.n]

RECURSIVE Drain(_)
\* "for unpacked in unpacker": every complete value of the buffer in order,
\* and the bytes that stay buffered for the next feed.
Drain(buf) ==
    LET r == UnpackOne(buf) IN
    IF r.st = "ok"
    THEN LET d == Drain(SubSeq(buf, r.n + 1, Len(buf))) IN
         [vals |-> <<r.val>> \o d.vals, rest |-> d.rest, bad |-> d.bad]
    ELSE [vals |-> <<>>, rest |-> buf, bad |-> r.st = "bad"]

RECURSIVE PackAll(_)
\* The log file that holds the given values: their encodings, concatenated.
PackAll(vals) ==
    IF vals = <<>> THEN <<>> ELSE Pack(vals[1]) \o PackAll(Tail(vals))

(***************************************************************************)
(* Request text.                                                           *)
(***************************************************************************)
\* "get".encode("utf-8") and "stop".encode("utf-8")
GET == <<103, 101, 116>>
STOP == <<115, 116, 111, 112>>

\* bytes.decode("utf-8") raises UnicodeDecodeError; the requests of the
\* model are ASCII or hold the byte 0xff, which no UTF-8 text holds.
ValidUtf8(data) == \A i \in 1..Len(data) : data[i] < 128

IsSpace(b) == b \in {9, 10, 11, 12, 13, 32}

RECURSIVE LStrip(_)
LStrip(s) == IF s # <<>> /\ IsSpace(s[1]) THEN LStrip(Tail(s)) ELSE s

RECURSIVE RStrip(_)
RStrip(s) ==
    IF s # <<>> /\ IsSpace(s[Len(s)])
    THEN RStrip(SubSeq(s, 1, Len(s) - 1))
    ELSE s

\* str.strip()
Strip(s) == RStrip(LStrip(s))


(***************************************************************************)
(* State.                                                                  *)
(***************************************************************************)
\* The loopback connection that stop() opens is connection 0.
Clients == 1..MaxClients
Conns == 0..MaxClients

\* What a client sends in one send: a request, a request with surrounding
\* whitespace, text that is no request, bytes that are no UTF-8 text.
Requests == {GET, <<32>> \o STOP \o <<10>>, <<120>>, <<255>>}

VARIABLES
    file,        \* the bytes of the log file
    logged,      \* history: the values written to the log file, in order
    unpack_pc,   \* unpack(): "start", "seek", "read", "sleep", "done", "failed"
    offset,      \* unpack(): position of its file object
    unpacker,    \* unpack(): bytes buffered by its msgpack.Unpacker
    last_log,    \* LogServer.last_log
    at_open,     \* history: number of values in the file at unpack()'s open
    at_seek,     \* history: number of values in the file when unpack() sought
    ndecoded,    \* history: number of values the unpacker has yielded
    discarded,   \* history: indexes in logged of the records that a later
                 \* record of the same poll replaced in last_log
    keep_going,  \* LogServer.__keep_going
    stopped,     \* LogServer.__stopped
    listen_pc,   \* listen(): "start", "accept", "done"
    backlog,     \* connections established and not yet accepted, in order
    serve_pc,    \* per connection: "none", "backlog", "task", "recv", "sleep",
                 \* "closed", "died"
    inbox,       \* per connection: bytes sent by the peer and not yet received
    peer,        \* per connection: the peer's socket, "open", "closed" or,
                 \* closed by a reset of the connection, "reset"
    nreplies,    \* per connection: number of sock_sendall calls that returned
    lastreply,   \* per connection: the bytes of the last of them
    seen,        \* history, per connection: ndecoded at the last of them
    stop_pc,     \* stop(): "idle", "wait", "returned", "refused"
    nsent,       \* history: number of sends of the clients
    nconnects,   \* history: number of connections of the clients
    lkind,       \* the class of the logger: "AsyncLogger", "Logger" (of
                 \* mpacklog/python) or "SyncLogger"; "none" before it is
                 \* constructed, "FileExistsError" if its constructor raised
    exists,      \* whether the log file exists
    queue,       \* logger.queue, oldest message first
    lkeep,       \* logger.__keep_going
    write_pc,    \* write() of the asynchronous loggers: "idle", "open", "get",
                 \* "write", "flush", "close", "returned"
    wflush,      \* write(): its flush argument
    msg,         \* write(): the message it took from the queue
    puts,        \* history: the messages put, in order
    ncalls,      \* history: number of calls of write() and flush()
    rd_kind,     \* the StreamClient of client 1: "gui" (mpacklog/gui),
                 \* "mpackview", or "none" before it is constructed
    rd_pc,       \* its read(): "idle", "recv", "returned"
    rd_unpacker, \* bytes buffered by its msgpack.Unpacker
    rd_base,     \* history: nreplies of the connection when read() was called
    rd_got,      \* history: number of bytes of the reply received so far
    rd_result,   \* what read() returned, None being NilVal
    dump_pc,     \* dump_log(): "none", "read", "returned"
    follow,      \* dump_log(): its follow argument
    dump_offset, \* dump_log(): position of its file object
    dump_unpacker, \* dump_log(): bytes buffered by its msgpack.Unpacker
    processed,   \* history: the arguments of printer.process, in call order
    nfinish,     \* history: number of calls of printer.finish
    fields_module, \* the module of filter_fields: "cli/fields" or
                 \* "cli/printers/fields"
    dictionary,  \* filter_fields(): its dictionary argument
    fields,      \* filter_fields(): its fields argument, each field the bytes
                 \* of a string
    filter_pc,   \* filter_fields(): "called", "returned", or the exception
                 \* it raised
    output,      \* what filter_fields() returned
    paused,      \* plot_widget.paused
    xdata,       \* PlotItem.xdata
    ydata,       \* PlotItem.ydata
    clock,       \* what time.time() returns
    nupdates,    \* history: number of calls of handle_update
    mod_unpack_pc, \* unpack() of mpacklog.cli.server: "none", "start", "read",
                 \* "cancelled", or the exception it raised
    mod_offset,  \* its position in the file
    mod_unpacker, \* bytes buffered by its msgpack.Unpacker
    mod_last_log, \* the global last_log of mpacklog.cli.server
    mod_listen_pc, \* listen() of mpacklog.cli.server: "none", "start",
                 \* "accept", "cancelled", or the exception it raised
    mod_backlog, \* number of connections established and not yet accepted
    mod_accepted, \* history: number of connections that sock_accept returned
    mod_tasks    \* history: number of serve_client tasks created

tailer_vars == <<unpack_pc, offset, unpacker, last_log, at_open, at_seek,
                 ndecoded, discarded>>
conn_vars == <<serve_pc, inbox, peer, nreplies, lastreply, seen>>
server_vars == <<tailer_vars, keep_going, stopped, listen_pc, backlog,
                 conn_vars, stop_pc, nsent, nconnects>>
logger_vars == <<lkind, exists, queue, lkeep, write_pc, wflush, msg, puts,
                 ncalls>>
reader_vars == <<rd_kind, rd_pc, rd_unpacker, rd_base, rd_got, rd_result>>
cli_vars == <<dump_pc, follow, dump_offset, dump_unpacker, processed, nfinish>>
fields_vars == <<fields_module, dictionary, fields, filter_pc, output>>
plot_vars == <<paused, xdata, ydata, clock, nupdates>>
module_vars == <<mod_unpack_pc, mod_offset, mod_unpacker, mod_last_log,
                 mod_listen_pc, mod_backlog, mod_accepted, mod_tasks>>
tool_vars == <<fields_vars, plot_vars, module_vars>>
client_vars == <<reader_vars, cli_vars, tool_vars>>
vars == <<file, logged, server_vars, logger_vars, client_vars>>

\* Variant of InitialLog: the cell starts as None.
InitialLogNone == NilVal

\* self.last_log = {}
InitialLog == EmptyMap

\* LogServer.__init__
ServerCreated ==
    /\ unpack_pc = "start"
    /\ offset = 0
    /\ unpacker = <<>>
    /\ last_log = InitialLog
    /\ at_open = 0
    /\ at_seek = 0
    /\ ndecoded = 0
    /\ discarded = {}
    /\ keep_going = TRUE
    /\ stopped = 0
    /\ listen_pc = "start"
    /\ backlog = <<>>
    /\ serve_pc = [c \in Conns |-> "none"]
    /\ inbox = [c \in Conns |-> <<>>]
    /\ peer = [c \in Conns |-> "open"]
    /\ nreplies = [c \in Conns |-> 0]
    /\ lastreply = [c \in Conns |-> <<>>]
    /\ seen = [c \in Conns |-> 0]
    /\ stop_pc = "idle"
    /\ nsent = 0
    /\ nconnects = 0

\* AsyncLogger.__init__, Logger.__init__, SyncLogger.__init__
LoggerCreated(kind) ==
    /\ lkind = kind
    /\ queue = <<>>
    /\ lkeep = TRUE
    /\ write_pc = "idle"
    /\ wflush = FALSE
    /\ msg = NilVal
    /\ puts = <<>>
    /\ ncalls = 0

\* No StreamClient yet.
ReaderCreated ==
    /\ rd_kind = "none"
    /\ rd_pc = "idle"
    /\ rd_unpacker = <<>>
    /\ rd_base = 0
    /\ rd_got = 0
    /\ rd_result = NilVal

\* dump_log is not called yet.
DumpCreated ==
    /\ dump_pc = "none"
    /\ follow = FALSE
    /\ dump_offset = 0
    /\ dump_unpacker = <<>>
    /\ processed = <<>>
    /\ nfinish = 0

\* filter_fields is not called: an empty dictionary and no fields.
FieldsCreated ==
    /\ fields_module = "cli/fields"
    /\ dictionary = EmptyMap
    /\ fields = <<>>
    /\ filter_pc = "returned"
    /\ output = EmptyMap

\* mpacklog.cli.server is imported and serve() is not called.
ModuleCreated ==
    /\ mod_unpack_pc = "none"
    /\ mod_offset = 0
    /\ mod_unpacker = <<>>
    /\ mod_last_log = EmptyMap
    /\ mod_listen_pc = "none"
    /\ mod_backlog = 0
    /\ mod_accepted = 0
    /\ mod_tasks = 0

\* PlotItem.__init__, in a plot widget that is not paused.
PlotCreated ==
    /\ paused = FALSE
    /\ xdata = <<>>
    /\ ydata = <<>>
    /\ clock = 0
    /\ nupdates = 0

\* LogServer.__init__, on a log file that holds the records logged so far;
\* the logger is an AsyncLogger, as in the tests of the server.
Init ==
    /\ \E npre \in 0..MaxPre :
           /\ logged = [i \in 1..npre |-> Rec(i)]
           /\ file = PackAll([i \in 1..npre |-> Rec(i)])
    /\ exists = TRUE
    /\ ServerCreated
    /\ LoggerCreated("AsyncLogger")
    /\ ReaderCreated
    /\ DumpCreated
    /\ FieldsCreated
    /\ PlotCreated
    /\ ModuleCreated

(***************************************************************************)
(* The logger: AsyncLogger.write appends the encoding of one message and   *)
(* flushes it.  The k-th value logged is the record {"a": k} or, for a     *)
(* message that is no dictionary, the integer k.  The environment writes   *)
(* at most limit values.                                                   *)
(***************************************************************************)
LoggerWrite(limit) ==
    /\ Len(logged) < limit
    /\ \E message \in {Rec(Len(logged) + 1), IntVal(Len(logged) + 1)} :
           /\ file' = file \o Pack(message)
           /\ logged' = Append(logged, message)
    /\ UNCHANGED <<server_vars, logger_vars, client_vars>>

(***************************************************************************)
(* The loggers.  AsyncLogger and the Logger of mpacklog/python have the    *)
(* same put(), stop() and write(), AsyncLogger's write() has a flush       *)
(* argument and flush() is write(flush=True).  An action of write() is the *)
(* code between two awaits that suspend it: aiofiles.open, queue.get() on  *)
(* an empty queue, file.write, file.flush, file.close.                     *)
(***************************************************************************)
Asynchronous == {"AsyncLogger", "Logger"}

\* Variant of PathExists: the constructor does not look at the path.
PathExistsNever == FALSE

\* os.path.exists(self.path)
PathExists == exists

\* The constructor of one of the loggers is called.  That of SyncLogger raises
\* FileExistsError if the path exists: the caller gets no logger.
LoggerInit ==
    /\ lkind = "none"
    /\ \E kind \in Asynchronous \cup {"SyncLogger"} :
           lkind' = IF kind = "SyncLogger" /\ PathExists
                    THEN "FileExistsError"
                    ELSE kind
    /\ UNCHANGED <<file, logged, server_vars, client_vars, exists, queue,
                   lkeep, write_pc, wflush, msg, puts, ncalls>>

\* "exit".encode("utf-8")
EXIT == <<101, 120, 105, 116>>

\* Variant of IsExit: write() has no sentinel.
IsExitNever(message) == FALSE

\* message == {"exit": True}, where Python has 1 == True.
IsExit(message) ==
    /\ message.kind = "map"
    /\ Len(message.val) = 1
    /\ message.val[1][1] = StrVal(EXIT)
    /\ message.val[1][2] \in {BoolVal(TRUE), IntVal(1)}

\* The messages that are put: records with a number, a nested mapping with
\* null, a sequence with a number of two bytes and a boolean, the empty
\* mapping, a message that is no mapping, and the sentinel of write().
Messages ==
    { Rec(1),
      MapVal(<< <<StrVal(<<97>>),
                  MapVal(<< <<StrVal(<<98>>), NilVal>> >>)>> >>),
      MapVal(<< <<StrVal(<<97>>),
                  ArrVal(<<IntVal(200), BoolVal(FALSE)>>)>> >>),
      EmptyMap,
      IntVal(7),
      MapVal(<< <<StrVal(EXIT), BoolVal(TRUE)>> >>) }

\* Variant of Enqueue: the queue is a stack (queue.LifoQueue).
EnqueueFront(q, message) == <<message>> \o q

\* Queue.put on an unbounded queue
Enqueue(q, message) == Append(q, message)

\* AsyncLogger.put, Logger.put: the queue has no bound, so that the await
\* does not suspend.
LoggerPut ==
    /\ lkind \in Asynchronous
    /\ Len(puts) < MaxPuts
    /\ \E message \in Messages :
           /\ queue' = Enqueue(queue, message)
           /\ puts' = Append(puts, message)
    /\ UNCHANGED <<file, logged, server_vars, client_vars, lkind, exists,
                   lkeep, write_pc, wflush, msg, ncalls>>

\* AsyncLogger.stop, Logger.stop
LoggerStop ==
    /\ lkind \in Asynchronous
    /\ lkeep
    /\ lkeep' = FALSE
    /\ UNCHANGED <<file, logged, server_vars, client_vars, lkind, exists,
                   queue, write_pc, wflush, msg, puts, ncalls>>

\* write(flush) is called, flush() being write(True): aiofiles.open is
\* awaited.  A call at a time.
WriteCall ==
    /\ lkind \in Asynchronous
    /\ write_pc \in {"idle", "returned"}
    /\ ncalls < MaxCalls
    /\ \E flush \in (IF lkind = "AsyncLogger" THEN {FALSE, TRUE} ELSE {FALSE}) :
           wflush' = flush
    /\ write_pc' = "open"
    /\ ncalls' = ncalls + 1
    /\ UNCHANGED <<file, logged, server_vars, client_vars, lkind, exists,
                   queue, lkeep, msg, puts>>

\* Variant of WriteKeepGoing: the loop looks at the flag, whatever flush is.
WriteKeepGoingFlag == lkeep

\* Variant of WriteKeepGoing: the loop does not look at the flag.
WriteKeepGoingAlways == wflush => queue # <<>>

\* keep_going = not self.queue.empty() if flush else self.__keep_going
WriteKeepGoing == IF wflush THEN queue # <<>> ELSE lkeep

\* Variant of WriteTake: the newest message is taken (queue.LifoQueue).
WriteTakeNewest ==
    /\ queue' = SubSeq(queue, 1, Len(queue) - 1)
    /\ IF IsExit(queue[Len(queue)])
       THEN write_pc' = "close" /\ UNCHANGED msg
       ELSE write_pc' = "write" /\ msg' = queue[Len(queue)]

\* A message is taken from the queue: the sentinel ends the loop, any other
\* message is packed and file.write awaited.
WriteTake ==
    /\ queue' = Tail(queue)
    /\ IF IsExit(Head(queue))
       THEN write_pc' = "close" /\ UNCHANGED msg
       ELSE write_pc' = "write" /\ msg' = Head(queue)

\* The test of the loop of write() and what follows it up to the next await
\* that suspends: queue.get() returns at once unless the queue is empty.
WriteLoop ==
    IF WriteKeepGoing
    THEN IF queue = <<>>
         THEN write_pc' = "get" /\ UNCHANGED <<queue, msg>>
         ELSE WriteTake
    ELSE write_pc' = "close" /\ UNCHANGED <<queue, msg>>

\* aiofiles.open(self.path, "wb") returns: the file exists and is empty.
WriteOpened ==
    /\ write_pc = "open"
    /\ exists' = TRUE
    /\ file' = <<>>
    /\ logged' = <<>>
    /\ WriteLoop
    /\ UNCHANGED <<server_vars, client_vars, lkind, lkeep, wflush, puts,
                   ncalls>>

\* queue.get() returns, a message having been put.
WriteGot ==
    /\ write_pc = "get"
    /\ queue # <<>>
    /\ WriteTake
    /\ UNCHANGED <<file, logged, server_vars, client_vars, lkind, exists,
                   lkeep, wflush, puts, ncalls>>

\* file.write returns: the bytes are in the buffer of the file object.
WriteWritten ==
    /\ write_pc = "write"
    /\ write_pc' = "flush"
    /\ UNCHANGED <<file, logged, server_vars, client_vars, lkind, exists,
                   queue, lkeep, wflush, msg, puts, ncalls>>

\* file.flush returns: the bytes are in the file.  Then the test of the loop.
WriteFlushed ==
    /\ write_pc = "flush"
    /\ file' = file \o Pack(msg)
    /\ logged' = Append(logged, msg)
    /\ WriteLoop
    /\ UNCHANGED <<server_vars, client_vars, lkind, exists, lkeep, wflush,
                   puts, ncalls>>

\* file.close returns and write() with it.
WriteClosed ==
    /\ write_pc = "close"
    /\ write_pc' = "returned"
    /\ UNCHANGED <<file, logged, server_vars, client_vars, lkind, exists,
                   queue, lkeep, wflush, msg, puts, ncalls>>

\* Variant of SyncWriteAll: the file is opened with "wb", which empties it.
SyncWriteAllTruncate(q) ==
    /\ exists' = TRUE
    /\ file' = PackAll(q)
    /\ logged' = q
    /\ queue' = <<>>
    /\ ncalls' = ncalls + 1

\* SyncLogger.write: the file is opened for appending, which creates it, and
\* the messages of the queue are written in order until it is empty.
SyncWriteAll(q) ==
    /\ exists' = TRUE
    /\ file' = file \o PackAll(q)
    /\ logged' = logged \o q
    /\ queue' = <<>>
    /\ ncalls' = ncalls + 1

SyncWrite ==
    /\ lkind = "SyncLogger"
    /\ ncalls < MaxCalls
    /\ SyncWriteAll(queue)
    /\ UNCHANGED <<server_vars, client_vars, lkind, lkeep, write_pc, wflush,
                   msg, puts>>

\* SyncLogger.put(message, write)
SyncPut ==
    /\ lkind = "SyncLogger"
    /\ Len(puts) < MaxPuts
    /\ \E message \in Messages, write \in BOOLEAN :
           /\ puts' = Append(puts, message)
           /\ IF write
              THEN /\ ncalls < MaxCalls
                   /\ SyncWriteAll(Enqueue(queue, message))
              ELSE /\ queue' = Enqueue(queue, message)
                   /\ UNCHANGED <<file, logged, exists, ncalls>>
    /\ UNCHANGED <<server_vars, client_vars, lkind, lkeep, write_pc, wflush,
                   msg>>

(***************************************************************************)
(* Reading a log file back.                                                *)
(***************************************************************************)
RECURSIVE ReadLogFresh(_, _, _, _)
\* Variant of ReadLogFrom: a new Unpacker for every chunk, so that the bytes
\* of a value the chunk ends in are lost.
ReadLogFresh(bytes, pos, buf, chunk_size) ==
    LET data == SubSeq(bytes, pos + 1,
                       IF Len(bytes) - pos > chunk_size
                       THEN pos + chunk_size ELSE Len(bytes))
        d == Drain(data)
        later == ReadLogFresh(bytes, pos + Len(data), <<>>, chunk_size)
    IN  IF data = <<>> THEN [vals |-> <<>>, bad |-> FALSE]
        ELSE IF d.bad THEN [vals |-> d.vals, bad |-> TRUE]
        ELSE [vals |-> d.vals \o later.vals, bad |-> later.bad]

RECURSIVE ReadLogFrom(_, _, _, _)
\* The loop of read_log from a position of the file on, with the bytes that
\* the unpacker holds: a chunk is read and fed, the complete values are
\* yielded, until a read returns nothing.  bad: the unpacker raised.
ReadLogFrom(bytes, pos, buf, chunk_size) ==
    LET data == SubSeq(bytes, pos + 1,
                       IF Len(bytes) - pos > chunk_size
                       THEN pos + chunk_size ELSE Len(bytes))
        d == Drain(buf \o data)
        later == ReadLogFrom(bytes, pos + Len(data), d.rest, chunk_size)
    IN  IF data = <<>> THEN [vals |-> <<>>, bad |-> FALSE]
        ELSE IF d.bad THEN [vals |-> d.vals, bad |-> TRUE]
        ELSE [vals |-> d.vals \o later.vals, bad |-> later.bad]

\* read_log(path, chunk_size): the values it yields, in order.
ReadLog(bytes, chunk_size) == ReadLogFrom(bytes, 0, <<>>, chunk_size)

\* msgpack.load(file), which is msgpack.unpackb(file.read()): the one value
\* the bytes encode; bytes after it raise ExtraData.
MsgpackLoad(bytes) ==
    LET r == UnpackOne(bytes) IN
    IF r.st # "ok" THEN [st |-> r.st, val |-> NilVal]
    ELSE IF r.n < Len(bytes) THEN [st |-> "ExtraData", val |-> r.val]
    ELSE [st |-> "ok", val |-> r.val]

(***************************************************************************)
(* unpack()                                                                *)
(***************************************************************************)
\* The "while self.__keep_going" test of unpack(), and what follows it: the
\* next file.read is awaited, or the loop and the coroutine end.
UnpackLoop == IF keep_going THEN "read" ELSE "done"

\* aiofiles.open(log_file, "rb")
UnpackOpen ==
    /\ unpack_pc = "start"
    /\ unpack_pc' = "seek"
    /\ offset' = 0
    /\ at_open' = Len(logged)
    /\ UNCHANGED <<file, logged, unpacker, last_log, at_seek, ndecoded,
                   discarded, keep_going, stopped, listen_pc, backlog,
                   conn_vars, stop_pc, nsent, nconnects, logger_vars,
                   client_vars>>

\* Variant of SeekEnd: seek(0, 1), which stays where open() put the position.
SeekCur == offset

\* file.seek(0, 2): the position of the end of the file.
SeekEnd == Len(file)

\* file.seek(0, 2), the Unpacker, and the first test of the loop.
UnpackSeek ==
    /\ unpack_pc = "seek"
    /\ offset' = SeekEnd
    /\ at_seek' = Len(logged)
    /\ unpacker' = <<>>
    /\ unpack_pc' = UnpackLoop
    /\ UNCHANGED <<file, logged, last_log, at_open, ndecoded, discarded,
                   keep_going, stopped, listen_pc, backlog, conn_vars, stop_pc,
                   nsent, nconnects, logger_vars, client_vars>>

\* file.read(4096): the bytes from the position on, at most a chunk.
FileRead(pos) ==
    SubSeq(file, pos + 1, IF Len(file) - pos > ChunkSize
                          THEN pos + ChunkSize ELSE Len(file))

\* Index of the first value that is no dictionary, 0 if there is none.
FirstNonDict(vals) ==
    IF \E i \in 1..Len(vals) : ~IsDict(vals[i])
    THEN CHOOSE i \in 1..Len(vals) :
             /\ ~IsDict(vals[i])
             /\ \A j \in 1..(i - 1) : IsDict(vals[j])
    ELSE 0

\* Variant of Assigned: only the first value of a poll is assigned.
AssignedFirst(vals) ==
    IF vals = <<>> \/ ~IsDict(vals[1]) THEN <<>> ELSE <<vals[1]>>

\* Variant of Assigned: no isinstance test, every value is assigned.
AssignedUnchecked(vals) == vals

\* The loop over the unpacker: every dictionary is assigned to last_log in
\* turn, so the last one stays; the first value that is no dictionary raises
\* ValueError, which unpack() does not catch.
Assigned(vals) ==
    IF FirstNonDict(vals) = 0 THEN vals
    ELSE SubSeq(vals, 1, FirstNonDict(vals) - 1)

\* The indexes in logged of the dictionaries among these values, the next
\* the unpacker yields, that the loop assigns to last_log and replaces by a
\* later one: unpack() decodes the values appended since its seek, in order.
Replaced(vals) ==
    LET ndicts == IF FirstNonDict(vals) = 0 THEN Len(vals)
                  ELSE FirstNonDict(vals) - 1
    IN  {at_seek + ndecoded + i : i \in 1..(ndicts - 1)}

\* Variant of Feed: a new Unpacker for every read, which has none of the bytes
\* that were fed before.
FeedFresh(buf, data) == data

\* unpacker.feed(data): the bytes are added after those the unpacker holds.
Feed(buf, data) == buf \o data

\* The bytes the unpacker holds after it has yielded the first k of the
\* values of its buffer.
Unread(buf, vals, k) ==
    SubSeq(buf, Len(PackAll(SubSeq(vals, 1, k))) + 1, Len(buf))

\* Variant of EndOfFile: a read that returns nothing ends the loop.
EndOfFileBreak == "done"

\* "if not data": rate.sleep() is awaited, then "continue".
EndOfFile == "sleep"

\* One file.read and the rest of the loop body, up to rate.sleep().
UnpackRead ==
    /\ unpack_pc = "read"
    /\ LET data == FileRead(offset)
           d == Drain(Feed(unpacker, data))
           raised == d.bad \/ FirstNonDict(d.vals) # 0
           yielded == IF FirstNonDict(d.vals) = 0 THEN Len(d.vals)
                      ELSE FirstNonDict(d.vals)
       IN  /\ offset' = offset + Len(data)
           /\ IF data = <<>>
              THEN /\ unpack_pc' = EndOfFile
                   /\ UNCHANGED <<unpacker, last_log, ndecoded, discarded>>
              ELSE /\ unpacker' = IF FirstNonDict(d.vals) = 0 THEN d.rest
                                  ELSE Unread(Feed(unpacker, data), d.vals,
                                              yielded)
                   /\ last_log' = IF Assigned(d.vals) = <<>> THEN last_log
                                  ELSE Assigned(d.vals)[Len(Assigned(d.vals))]
                   /\ ndecoded' = ndecoded + yielded
                   /\ discarded' = discarded \cup Replaced(d.vals)
                   /\ unpack_pc' = IF raised THEN "failed" ELSE "sleep"
    /\ UNCHANGED <<file, logged, at_open, at_seek, keep_going, stopped,
                   listen_pc, backlog, conn_vars, stop_pc, nsent, nconnects,
                   logger_vars, client_vars>>

\* rate.sleep() is over: the test of the loop.
UnpackWake ==
    /\ unpack_pc = "sleep"
    /\ unpack_pc' = UnpackLoop
    /\ UNCHANGED <<file, logged, offset, unpacker, last_log, at_open, at_seek,
                   ndecoded, discarded, keep_going, stopped, listen_pc,
                   backlog, conn_vars, stop_pc, nsent, nconnects, logger_vars,
                   client_vars>>

(***************************************************************************)
(* listen()                                                                *)
(***************************************************************************)
\* The listening socket accepts connections from bind to close.
Listening == listen_pc = "accept"

\* socket(), bind(), listen(8) and the first test of the loop: sock_accept is
\* awaited, or the socket is closed and the coroutine ends.
ListenBind ==
    /\ listen_pc = "start"
    /\ IF keep_going
       THEN /\ listen_pc' = "accept"
            /\ UNCHANGED stopped
       ELSE /\ listen_pc' = "done"
            /\ stopped' = stopped + 1
    /\ UNCHANGED <<file, logged, tailer_vars, keep_going, backlog, conn_vars,
                   stop_pc, nsent, nconnects, logger_vars, client_vars>>

\* Variant of ListenAccept: listen() awaits serve() itself, so that it accepts
\* no connection while one is served.
ListenAcceptSerial ==
    /\ \A c \in Conns : serve_pc[c] \notin {"task", "recv", "sleep"}
    /\ listen_pc = "accept"
    /\ backlog # <<>>
    /\ serve_pc' = [serve_pc EXCEPT ![Head(backlog)] = "task"]
    /\ backlog' = Tail(backlog)
    /\ UNCHANGED <<file, logged, tailer_vars, keep_going, stopped, listen_pc,
                   inbox, peer, nreplies, lastreply, seen, stop_pc, nsent,
                   nconnects, logger_vars, client_vars>>

\* sock_accept returns the oldest established connection, create_task hands
\* it to serve(), then the test of the loop.
ListenAccept ==
    /\ listen_pc = "accept"
    /\ backlog # <<>>
    /\ serve_pc' = [serve_pc EXCEPT ![Head(backlog)] = "task"]
    /\ backlog' = Tail(backlog)
    /\ IF keep_going
       THEN UNCHANGED <<listen_pc, stopped>>
       ELSE /\ listen_pc' = "done"
            /\ stopped' = stopped + 1
    /\ UNCHANGED <<file, logged, tailer_vars, keep_going, inbox, peer,
                   nreplies, lastreply, seen, stop_pc, nsent, nconnects,
                   logger_vars, client_vars>>

(***************************************************************************)
(* serve(client, address)                                                  *)
(***************************************************************************)
\* The end of serve(): client.close() and the increment of __stopped.
ServeClose(c) ==
    /\ serve_pc' = [serve_pc EXCEPT ![c] = "closed"]
    /\ stopped' = stopped + 1

\* Variant of ServeLoop: the loop does not test the flag.
ServeLoopForever(c) ==
    /\ serve_pc' = [serve_pc EXCEPT ![c] = "recv"]
    /\ UNCHANGED stopped

\* The "while self.__keep_going" test of serve(): sock_recv is awaited, or
\* the loop ends and the connection is closed.
ServeLoop(c) ==
    IF keep_going
    THEN /\ serve_pc' = [serve_pc EXCEPT ![c] = "recv"]
         /\ UNCHANGED stopped
    ELSE ServeClose(c)

\* The task created by listen() starts to run.
ServeStart(c) ==
    /\ serve_pc[c] = "task"
    /\ ServeLoop(c)
    /\ UNCHANGED <<file, logged, tailer_vars, keep_going, listen_pc, backlog,
                   inbox, peer, nreplies, lastreply, seen, stop_pc, nsent,
                   nconnects, logger_vars, client_vars>>

\* Variant of ServeContinue: "break" in the handler of UnicodeDecodeError.
ServeBreak(c) == ServeClose(c)

\* The "continue" of the handler of UnicodeDecodeError: the test of the loop,
\* without rate.sleep().
ServeContinue(c) == ServeLoop(c)

\* An exception that is no BrokenPipeError leaves serve(): the task ends with
\* it, client.close() and the increment of __stopped are not reached.
ServeRaise(c) ==
    /\ serve_pc' = [serve_pc EXCEPT ![c] = "died"]
    /\ UNCHANGED stopped

\* Variant of Reply: the records that were decoded are kept, and a connection
\* that asks again is sent the record before the one it was sent.
ReplyHistory(c) ==
    LET k == at_seek + ndecoded - nreplies[c] IN
    IF k > at_seek /\ IsDict(logged[k]) THEN Pack(logged[k]) ELSE Pack(EmptyMap)

\* reply = packer.pack(self.last_log)
Reply(c) == Pack(last_log)

\* Variant of CellAfterGet: the record is handed over to the client that asks
\* for it, and the cell is empty afterwards.
CellTaken == EmptyMap

\* packer.pack(self.last_log) reads last_log and leaves it as it is.
CellAfterGet == last_log

\* sock_recv returns: with the bytes received so far, or with no bytes once
\* the peer has closed; it raises ConnectionResetError once the peer has
\* reset the connection.  Then the body of the loop up to rate.sleep().  A
\* send to a peer that has closed returns or raises BrokenPipeError.
ServeRecv(c) ==
    /\ serve_pc[c] = "recv"
    /\ inbox[c] # <<>> \/ peer[c] # "open"
    /\ inbox' = [inbox EXCEPT ![c] = <<>>]
    /\ LET data == inbox[c]
           request == Strip(data)
       IN  IF peer[c] = "reset"
           THEN /\ ServeRaise(c)
                /\ UNCHANGED <<keep_going, nreplies, lastreply, seen>>
           ELSE IF data = <<>>
           THEN /\ ServeClose(c)
                /\ UNCHANGED <<keep_going, nreplies, lastreply, seen>>
           ELSE IF ~ValidUtf8(data)
           THEN /\ ServeContinue(c)
                /\ UNCHANGED <<keep_going, nreplies, lastreply, seen>>
           ELSE IF request = GET
           THEN \/ /\ nreplies' = [nreplies EXCEPT ![c] = @ + 1]
                   /\ lastreply' = [lastreply EXCEPT ![c] = Reply(c)]
                   /\ seen' = [seen EXCEPT ![c] = ndecoded]
                   /\ serve_pc' = [serve_pc EXCEPT ![c] = "sleep"]
                   /\ UNCHANGED <<keep_going, stopped>>
                \/ /\ peer[c] = "closed"
                   /\ ServeClose(c)
                   /\ UNCHANGED <<keep_going, nreplies, lastreply, seen>>
           ELSE IF request = STOP
           THEN /\ keep_going' = FALSE
                /\ serve_pc' = [serve_pc EXCEPT ![c] = "sleep"]
                /\ UNCHANGED <<stopped, nreplies, lastreply, seen>>
           ELSE /\ serve_pc' = [serve_pc EXCEPT ![c] = "sleep"]
                /\ UNCHANGED <<keep_going, stopped, nreplies, lastreply, seen>>
    /\ last_log' = IF /\ peer[c] # "reset"
                      /\ inbox[c] # <<>>
                      /\ ValidUtf8(inbox[c])
                      /\ Strip(inbox[c]) = GET
                   THEN CellAfterGet
                   ELSE last_log
    /\ UNCHANGED <<file, logged, unpack_pc, offset, unpacker, at_open, at_seek,
                   ndecoded, discarded, listen_pc, backlog, peer, stop_pc,
                   nsent, nconnects, logger_vars, client_vars>>

\* rate.sleep() is over: the test of the loop.
ServeWake(c) ==
    /\ serve_pc[c] = "sleep"
    /\ ServeLoop(c)
    /\ UNCHANGED <<file, logged, tailer_vars, keep_going, listen_pc, backlog,
                   inbox, peer, nreplies, lastreply, seen, stop_pc, nsent,
                   nconnects, logger_vars, client_vars>>

(***************************************************************************)
(* stop()                                                                  *)
(***************************************************************************)
\* Variant of StopCall: the flag is cleared and no connection is opened.
StopCallNoProbe ==
    /\ stop_pc = "idle"
    /\ IF Listening
       THEN /\ keep_going' = FALSE
            /\ stop_pc' = "wait"
       ELSE /\ stop_pc' = "refused"
            /\ UNCHANGED keep_going
    /\ UNCHANGED <<file, logged, tailer_vars, stopped, listen_pc, backlog,
                   conn_vars, nsent, nconnects, logger_vars, client_vars>>

\* stop() up to its first suspension: connect (refused unless the server
\* listens: the exception leaves stop()), the flag, the "stop" request.
StopCall ==
    /\ stop_pc = "idle"
    /\ IF Listening
       THEN /\ backlog' = Append(backlog, 0)
            /\ serve_pc' = [serve_pc EXCEPT ![0] = "backlog"]
            /\ keep_going' = FALSE
            /\ inbox' = [inbox EXCEPT ![0] = STOP]
            /\ stop_pc' = "wait"
       ELSE /\ stop_pc' = "refused"
            /\ UNCHANGED <<backlog, serve_pc, keep_going, inbox>>
    /\ UNCHANGED <<file, logged, tailer_vars, stopped, listen_pc, peer,
                   nreplies, lastreply, seen, nsent, nconnects, logger_vars,
                   client_vars>>

\* "while self.__stopped < 2" is false: sock.close() and stop() returns.
StopReturn ==
    /\ stop_pc = "wait"
    /\ stopped >= 2
    /\ stop_pc' = "returned"
    /\ peer' = [peer EXCEPT ![0] = "closed"]
    /\ UNCHANGED <<file, logged, tailer_vars, keep_going, stopped, listen_pc,
                   backlog, serve_pc, inbox, nreplies, lastreply, seen, nsent,
                   nconnects, logger_vars, client_vars>>

(***************************************************************************)
(* Clients.                                                                *)
(***************************************************************************)
Connected(c) == serve_pc[c] \in {"backlog", "task", "recv", "sleep"}

\* connect(): a new connection, established by the listening socket before
\* listen() accepts it.  A client whose connection the server has closed may
\* connect again.
ClientConnect(c) ==
    /\ serve_pc[c] \in {"none", "closed", "died"}
    /\ nconnects < MaxConnects
    /\ Listening
    /\ backlog' = Append(backlog, c)
    /\ serve_pc' = [serve_pc EXCEPT ![c] = "backlog"]
    /\ inbox' = [inbox EXCEPT ![c] = <<>>]
    /\ peer' = [peer EXCEPT ![c] = "open"]
    /\ nreplies' = [nreplies EXCEPT ![c] = 0]
    /\ lastreply' = [lastreply EXCEPT ![c] = <<>>]
    /\ seen' = [seen EXCEPT ![c] = 0]
    /\ nconnects' = nconnects + 1
    /\ UNCHANGED <<file, logged, tailer_vars, keep_going, stopped, listen_pc,
                   stop_pc, nsent, logger_vars, client_vars>>

\* One send of one of the given requests.
ClientSend(c, requests) ==
    /\ Connected(c)
    /\ peer[c] = "open"
    /\ nsent < MaxSends
    /\ \E data \in requests : inbox' = [inbox EXCEPT ![c] = @ \o data]
    /\ nsent' = nsent + 1
    /\ UNCHANGED <<file, logged, tailer_vars, keep_going, stopped, listen_pc,
                   backlog, serve_pc, peer, nreplies, lastreply, seen, stop_pc,
                   nconnects, logger_vars, client_vars>>

\* StreamClient.read(): "get" is sent and the reply awaited, so that a client
\* has one request under way at most.
ClientRead(c) ==
    /\ inbox[c] = <<>>
    /\ ClientSend(c, {GET})

ClientClose(c) ==
    /\ Connected(c)
    /\ peer[c] = "open"
    /\ peer' = [peer EXCEPT ![c] = "closed"]
    /\ UNCHANGED <<file, logged, tailer_vars, keep_going, stopped, listen_pc,
                   backlog, serve_pc, inbox, nreplies, lastreply, seen,
                   stop_pc, nsent, nconnects, logger_vars, client_vars>>

\* The client's end is closed abruptly (close() with unread replies, or with
\* SO_LINGER 0): the server's end receives a reset, not an end of stream.
ClientReset(c) ==
    /\ Connected(c)
    /\ peer[c] = "open"
    /\ peer' = [peer EXCEPT ![c] = "reset"]
    /\ UNCHANGED <<file, logged, tailer_vars, keep_going, stopped, listen_pc,
                   backlog, serve_pc, inbox, nreplies, lastreply, seen,
                   stop_pc, nsent, nconnects, logger_vars, client_vars>>

(***************************************************************************)
(* StreamClient, of mpacklog/gui and of mpackview: client 1.               *)
(***************************************************************************)
Readers == {"gui", "mpackview"}

Last(seq) == seq[Len(seq)]

\* StreamClient.__init__: the Unpacker and the connection, which the
\* listening socket establishes before listen() accepts it.
ReaderInit ==
    /\ rd_kind = "none"
    /\ serve_pc[1] = "none"
    /\ nconnects < MaxConnects
    /\ Listening
    /\ \E kind \in Readers : rd_kind' = kind
    /\ rd_unpacker' = <<>>
    /\ backlog' = Append(backlog, 1)
    /\ serve_pc' = [serve_pc EXCEPT ![1] = "backlog"]
    /\ nconnects' = nconnects + 1
    /\ UNCHANGED <<file, logged, tailer_vars, keep_going, stopped, listen_pc,
                   inbox, peer, nreplies, lastreply, seen, stop_pc, nsent,
                   logger_vars, rd_pc, rd_base, rd_got, rd_result, cli_vars,
                   tool_vars>>

\* read() up to its first recv: "get" is sent.
ReadCall ==
    /\ rd_kind \in Readers
    /\ rd_pc \in {"idle", "returned"}
    /\ nsent < MaxSends
    /\ inbox' = [inbox EXCEPT ![1] = @ \o GET]
    /\ nsent' = nsent + 1
    /\ rd_pc' = "recv"
    /\ rd_base' = nreplies[1]
    /\ rd_got' = 0
    /\ UNCHANGED <<file, logged, tailer_vars, keep_going, stopped, listen_pc,
                   backlog, serve_pc, peer, nreplies, lastreply, seen, stop_pc,
                   nconnects, logger_vars, rd_kind, rd_unpacker, rd_result,
                   cli_vars, tool_vars>>

\* The test of the loop of read() on the value decoded last: mpacklog/gui
\* starts with reply_dict = {} and loops "while not reply_dict", which an
\* empty dictionary satisfies; mpackview starts with None and loops "while
\* reply_dict is None".
ReadAgain(kind, decoded) ==
    \/ decoded = <<>>
    \/ kind = "gui" /\ Last(decoded) = EmptyMap

\* recv returns: some of the bytes of the reply that were not received yet,
\* or no bytes once the server has closed the connection.  The bytes are fed
\* to the unpacker, and read() returns the last value it yields or awaits
\* the next recv.
ReadRecv ==
    /\ rd_pc = "recv"
    /\ \/ /\ nreplies[1] > rd_base
          /\ rd_got < Len(lastreply[1])
          /\ \E n \in 1..(Len(lastreply[1]) - rd_got) :
                 LET data == SubSeq(lastreply[1], rd_got + 1, rd_got + n)
                     d == Drain(rd_unpacker \o data)
                 IN  /\ rd_got' = rd_got + n
                     /\ rd_unpacker' = d.rest
                     /\ IF ReadAgain(rd_kind, d.vals)
                        THEN UNCHANGED <<rd_pc, rd_result>>
                        ELSE /\ rd_pc' = "returned"
                             /\ rd_result' = Last(d.vals)
       \/ /\ nreplies[1] > rd_base => rd_got = Len(lastreply[1])
          /\ serve_pc[1] = "closed"
          /\ rd_pc' = "returned"
          /\ rd_result' = NilVal
          /\ UNCHANGED <<rd_unpacker, rd_got>>
    /\ UNCHANGED <<file, logged, server_vars, logger_vars, rd_kind, rd_base,
                   cli_vars, tool_vars>>

(***************************************************************************)
(* dump_log of mpacklog/cli/main.py, called by the dump and list           *)
(* subcommands: the loop reads the file chunk by chunk and hands every     *)
(* value the unpacker yields to printer.process.  An action is the call up *)
(* to the loop, or one iteration of the loop.  The printer is the base     *)
(* class Printer, whose methods do nothing, so that no call of process     *)
(* raises BrokenPipeError.                                                 *)
(***************************************************************************)
\* Variant of FinishCalls: printer.finish(logfile) follows the loop, as in
\* dump_log of mpacklog/cli/__init__.py.
FinishCallsAfterLoop == 1

\* The calls of printer.finish in dump_log after its loop: there is none.
FinishCalls == 0

\* dump_log(logfile, printer, follow) up to the loop: open(logfile, "rb") and
\* a new Unpacker.
DumpCall ==
    /\ dump_pc = "none"
    /\ exists
    /\ dump_pc' = "read"
    /\ follow' \in BOOLEAN
    /\ dump_offset' = 0
    /\ dump_unpacker' = <<>>
    /\ UNCHANGED <<file, logged, server_vars, logger_vars, reader_vars,
                   tool_vars, processed, nfinish>>

\* One iteration of the loop: at the end of the file it breaks, or sleeps
\* and goes on if it follows; every value that the chunk completes is
\* processed, whether or not it is a dictionary.
DumpRead ==
    /\ dump_pc = "read"
    /\ LET data == FileRead(dump_offset)
           d == Drain(dump_unpacker \o data)
       IN  IF data = <<>>
           THEN /\ ~follow
                /\ dump_pc' = "returned"
                /\ nfinish' = nfinish + FinishCalls
                /\ UNCHANGED <<dump_offset, dump_unpacker, processed>>
           ELSE /\ dump_offset' = dump_offset + Len(data)
                /\ dump_unpacker' = d.rest
                /\ processed' = processed \o d.vals
                /\ UNCHANGED <<dump_pc, nfinish>>
    /\ UNCHANGED <<file, logged, server_vars, logger_vars, reader_vars,
                   tool_vars, follow>>

(***************************************************************************)
(* Fields: get_from_keys, set_from_keys and filter_fields, which are in    *)
(* mpacklog/cli/fields.py, the module that JSONPrinter imports, and in     *)
(* mpacklog/cli/printers/fields.py.  A field is the bytes of a string such *)
(* as "a/b".  Python's dictionaries are changed in place; the operators    *)
(* return the changed dictionary.  The values at the second level of the   *)
(* Dictionaries are no dictionaries, so that a dictionary which the output *)
(* shares with the argument is only ever assigned the values it holds.     *)
(***************************************************************************)
FieldsModules == {"cli/fields", "cli/printers/fields"}

\* The bytes of "/" and of "0"; those of "a", "b", "c" and "x" are 97, 98, 99
\* and 120.
Slash == 47
Zero == 48

\* The dictionaries that are filtered: {}, {"a": 1, "x": 2}, {"a": {"b": 1}},
\* {"a": {"b": 1, "c": 2}, "x": 3}, {"x": {"a": 1}} and {"x": [7]}.
Dictionaries ==
    { EmptyMap,
      MapVal(<< <<StrVal(<<97>>), IntVal(1)>>,
                <<StrVal(<<120>>), IntVal(2)>> >>),
      MapVal(<< <<StrVal(<<97>>),
                  MapVal(<< <<StrVal(<<98>>), IntVal(1)>> >>)>> >>),
      MapVal(<< <<StrVal(<<97>>),
                  MapVal(<< <<StrVal(<<98>>), IntVal(1)>>,
                            <<StrVal(<<99>>), IntVal(2)>> >>)>>,
                <<StrVal(<<120>>), IntVal(3)>> >>),
      MapVal(<< <<StrVal(<<120>>),
                  MapVal(<< <<StrVal(<<97>>), IntVal(1)>> >>)>> >>),
      MapVal(<< <<StrVal(<<120>>), ArrVal(<<IntVal(7)>>)>> >>) }

\* The fields asked for: "a", "x", "a/b", "a/c", "x/a" and "x/0".
FieldNames ==
    { <<97>>, <<120>>, <<97, Slash, 98>>, <<97, Slash, 99>>,
      <<120, Slash, 97>>, <<120, Slash, Zero>> }

\* The lists of at most MaxFields fields.
FieldLists ==
    UNION {[1..n -> FieldNames] : n \in 0..MaxFields}

RECURSIVE Split(_)
\* field.split("/")
Split(field) ==
    IF \E i \in 1..Len(field) : field[i] = Slash
    THEN LET i == CHOOSE j \in 1..Len(field) :
                      /\ field[j] = Slash
                      /\ \A k \in 1..(j - 1) : field[k] # Slash
         IN  <<SubSeq(field, 1, i - 1)>>
                 \o Split(SubSeq(field, i + 1, Len(field)))
    ELSE <<field>>

\* Position of the key in the items of a dictionary, 0 if it is not in it.
KeyIndex(pairs, key) ==
    IF \E i \in 1..Len(pairs) : pairs[i][1] = StrVal(key)
    THEN CHOOSE i \in 1..Len(pairs) : pairs[i][1] = StrVal(key)
    ELSE 0

\* The string is made of decimal digits.
IsDigits(bytes) ==
    /\ bytes # <<>>
    /\ \A i \in 1..Len(bytes) : bytes[i] \in Zero..(Zero + 9)

RECURSIVE ToInt(_)
\* int(key), for a key made of decimal digits
ToInt(bytes) ==
    IF bytes = <<>> THEN 0
    ELSE 10 * ToInt(SubSeq(bytes, 1, Len(bytes) - 1))
             + (bytes[Len(bytes)] - Zero)

\* An exception is raised.
Raise(exception) == [st |-> exception, val |-> NilVal]

\* A value is returned.
Return(value) == [st |-> "ok", val |-> value]

\* collection[key], with key = int(key) for a list.
GetItem(collection, key) ==
    CASE collection.kind = "map" ->
             IF KeyIndex(collection.val, key) = 0 THEN Raise("KeyError")
             ELSE Return(collection.val[KeyIndex(collection.val, key)][2])
      [] collection.kind = "arr" ->
             IF ~IsDigits(key) THEN Raise("ValueError")
             ELSE IF ToInt(key) >= Len(collection.val)
             THEN Raise("IndexError")
             ELSE Return(collection.val[ToInt(key) + 1])
      [] OTHER -> Raise("TypeError")

RECURSIVE GetFromKeys(_, _)
\* get_from_keys(collection, keys) with no default: a KeyError is raised
\* again, with a longer message.
GetFromKeys(collection, keys) ==
    LET child == GetItem(collection, keys[1])
    IN  IF child.st # "ok" \/ Len(keys) = 1 THEN child
        ELSE GetFromKeys(child.val, Tail(keys))

\* get_from_field(collection, field)
GetFromField(collection, field) == GetFromKeys(collection, Split(field))

\* dictionary[key] = value, for a dictionary.
SetItem(pairs, key, value) ==
    IF KeyIndex(pairs, key) = 0 THEN Append(pairs, <<StrVal(key), value>>)
    ELSE [pairs EXCEPT ![KeyIndex(pairs, key)] = <<StrVal(key), value>>]

\* The end of set_from_keys for more than one key in cli/printers/fields:
\* "return set_from_keys(dictionary[key], keys[1:], value)", which leaves
\* dictionary[key] as the recursive call changed it.
AfterRecursionReturn(child, value) == child

\* The end of set_from_keys for more than one key in cli/fields: the
\* recursive call is not returned, and "dictionary[key] = value" follows
\* it.
AfterRecursionAssign(child, value) == value

\* What dictionary[key] is after the recursive call, in either module.
AfterRecursion(module, child, value) ==
    IF module = "cli/fields" THEN AfterRecursionAssign(child, value)
    ELSE AfterRecursionReturn(child, value)

RECURSIVE SetFromKeys(_, _, _, _)
\* set_from_keys(dictionary, keys, value): the dictionary afterwards.  Only
\* a dictionary supports "key in" and the assignment of a string key
\* together.
SetFromKeys(module, collection, keys, value) ==
    IF collection.kind # "map" THEN Raise("TypeError")
    ELSE IF Len(keys) = 1
    THEN Return(MapVal(SetItem(collection.val, keys[1], value)))
    ELSE LET created ==
                 IF KeyIndex(collection.val, keys[1]) = 0
                 THEN SetItem(collection.val, keys[1], EmptyMap)
                 ELSE collection.val
             child == SetFromKeys(module,
                                  created[KeyIndex(created, keys[1])][2],
                                  Tail(keys), value)
         IN  IF child.st # "ok" THEN child
             ELSE Return(MapVal(SetItem(
                      created, keys[1],
                      AfterRecursion(module, child.val, value))))

RECURSIVE FilterLoop(_, _, _, _)
\* The loop of filter_fields over the fields that are left: a KeyError is
\* printed and the field skipped, another exception leaves the function.
FilterLoop(module, collection, names, out) ==
    IF names = <<>> THEN Return(out)
    ELSE LET value == GetFromField(collection, names[1])
             set == SetFromKeys(module, out, Split(names[1]), value.val)
         IN  IF value.st = "KeyError"
             THEN FilterLoop(module, collection, Tail(names), out)
             ELSE IF value.st # "ok" THEN value
             ELSE IF set.st # "ok" THEN set
             ELSE FilterLoop(module, collection, Tail(names), set.val)

\* filter_fields(dictionary, fields)
FilterFieldsOf(module, collection, names) ==
    IF names = <<>> THEN Return(collection)
    ELSE FilterLoop(module, collection, names, EmptyMap)

\* filter_fields is called, as JSONPrinter.process does with a record.
FilterCall ==
    /\ filter_pc # "called"
    /\ fields_module' \in FieldsModules
    /\ dictionary' \in Dictionaries
    /\ fields' \in FieldLists
    /\ filter_pc' = "called"
    /\ output' = NilVal
    /\ UNCHANGED <<file, logged, server_vars, logger_vars, reader_vars,
                   cli_vars, plot_vars, module_vars>>

\* filter_fields returns or raises.
FilterFields ==
    /\ filter_pc = "called"
    /\ LET r == FilterFieldsOf(fields_module, dictionary, fields)
       IN  /\ filter_pc' = IF r.st = "ok" THEN "returned" ELSE r.st
           /\ output' = r.val
    /\ UNCHANGED <<file, logged, server_vars, logger_vars, reader_vars,
                   cli_vars, plot_vars, module_vars, fields_module,
                   dictionary, fields>>

(***************************************************************************)
(* PlotItem of mpackview (handle_update) and of mpacklog/gui/gui.py        *)
(* (_handle_update), which are the same statements.  Time is counted in    *)
(* whole seconds and does not go back; the history duration of the plot    *)
(* widget is not changed.  The k-th call of handle_update has the value k. *)
(***************************************************************************)
\* plot_widget.history_duration, in seconds
HistoryDuration == 2

\* Time passes.
ClockTick ==
    /\ clock < MaxTime
    /\ clock' = clock + 1
    /\ UNCHANGED <<file, logged, server_vars, logger_vars, reader_vars,
                   cli_vars, fields_vars, module_vars, paused, xdata, ydata,
                   nupdates>>

\* The pause button of the plot widget.
PlotPause ==
    /\ paused' = ~paused
    /\ UNCHANGED <<file, logged, server_vars, logger_vars, reader_vars,
                   cli_vars, fields_vars, module_vars, xdata, ydata, clock,
                   nupdates>>

\* The loop that sets oldest_index: one less than the index, counted from
\* 0, of the first time of the list that is not before oldest_time.  The
\* list ends with the time of the call, so that there is one.
OldestIndex(times, oldest_time) ==
    (CHOOSE i \in 0..(Len(times) - 1) :
         /\ times[i + 1] >= oldest_time
         /\ \A j \in 0..(i - 1) : times[j + 1] < oldest_time) - 1

\* Variant of Trims: "if oldest_index and oldest_index > 0".
TrimsFromOne(oldest_index) == oldest_index # 0 /\ oldest_index > 0

\* "if oldest_index and oldest_index > 1"
Trims(oldest_index) == oldest_index # 0 /\ oldest_index > 1

\* data[oldest_index:], for an index that is positive
From(data, oldest_index) == SubSeq(data, oldest_index + 1, Len(data))

\* handle_update(value): nothing if the plot is paused; the time and the
\* value are appended, and the lists are cut at oldest_index.
HandleUpdate ==
    /\ nupdates < MaxUpdates
    /\ nupdates' = nupdates + 1
    /\ IF paused THEN UNCHANGED <<xdata, ydata>>
       ELSE LET now == clock
                times == Append(xdata, now)
                values == Append(ydata, nupdates + 1)
                oldest_index == OldestIndex(times, now - HistoryDuration)
            IN  IF Trims(oldest_index)
                THEN /\ xdata' = From(times, oldest_index)
                     /\ ydata' = From(values, oldest_index)
                ELSE /\ xdata' = times
                     /\ ydata' = values
    /\ UNCHANGED <<file, logged, server_vars, logger_vars, reader_vars,
                   cli_vars, fields_vars, module_vars, paused, clock>>

(***************************************************************************)
(* mpacklog.cli.server: the functions unpack, serve_client, listen, main   *)
(* and serve of the module, with the global last_log.  serve(log_path,     *)
(* port) runs main, which gathers unpack and listen: when one of the two   *)
(* raises, asyncio.run cancels the other and the exception leaves serve.   *)
(***************************************************************************)
\* The bytes of "observation".
OBSERVATION == <<111, 98, 115, 101, 114, 118, 97, 116, 105, 111, 110>>

\* The dictionary {"observation": n}.
Obs(n) == MapVal(<< <<StrVal(OBSERVATION), IntVal(n)>> >>)

\* The logger appends a value to the file: the k-th is {"observation": k},
\* {"a": k} or the integer k.
ObsLoggerWrite ==
    /\ Len(logged) < MaxLogged
    /\ \E message \in {Obs(Len(logged) + 1), Rec(Len(logged) + 1),
                        IntVal(Len(logged) + 1)} :
           /\ file' = file \o Pack(message)
           /\ logged' = Append(logged, message)
    /\ UNCHANGED <<server_vars, logger_vars, client_vars>>

\* serve(log_path, port) for the path of the log file: asyncio.run(main(...))
\* starts unpack and listen.
ModServe ==
    /\ mod_unpack_pc = "none"
    /\ mod_listen_pc = "none"
    /\ exists
    /\ mod_unpack_pc' = "start"
    /\ mod_listen_pc' = "start"
    /\ UNCHANGED <<file, logged, server_vars, logger_vars, reader_vars,
                   cli_vars, fields_vars, plot_vars, mod_offset, mod_unpacker,
                   mod_last_log, mod_backlog, mod_accepted, mod_tasks>>

\* A task is cancelled if it has not ended.
Cancelled(pc) == IF pc \in {"start", "read", "accept"} THEN "cancelled" ELSE pc

\* unpack(): the file is opened and sought to its end.
ModUnpackSeek ==
    /\ mod_unpack_pc = "start"
    /\ mod_unpack_pc' = "read"
    /\ mod_offset' = Len(file)
    /\ mod_unpacker' = <<>>
    /\ UNCHANGED <<file, logged, server_vars, logger_vars, reader_vars,
                   cli_vars, fields_vars, plot_vars, mod_last_log,
                   mod_listen_pc, mod_backlog, mod_accepted, mod_tasks>>

\* "observation" in unpacked
HasObservation(v) == KeyIndex(v.val, OBSERVATION) # 0

\* Index of the first value for which unpack() raises ValueError, 0 if
\* there is none.
FirstRefused(vals) ==
    IF \E i \in 1..Len(vals) : ~IsDict(vals[i]) \/ ~HasObservation(vals[i])
    THEN CHOOSE i \in 1..Len(vals) :
             /\ ~IsDict(vals[i]) \/ ~HasObservation(vals[i])
             /\ \A j \in 1..(i - 1) :
                    IsDict(vals[j]) /\ HasObservation(vals[j])
    ELSE 0

\* unpack(): a read that returns bytes.  The values they complete are
\* assigned to last_log one after the other; a value that is no dictionary
\* or has no "observation" raises ValueError, which ends unpack and, with
\* it, main.
ModUnpackRead ==
    /\ mod_unpack_pc = "read"
    /\ FileRead(mod_offset) # <<>>
    /\ LET data == FileRead(mod_offset)
           d == Drain(mod_unpacker \o data)
           k == FirstRefused(d.vals)
           n == IF k = 0 THEN Len(d.vals) ELSE k - 1
       IN  /\ mod_offset' = mod_offset + Len(data)
           /\ mod_unpacker' = d.rest
           /\ mod_last_log' = IF n = 0 THEN mod_last_log ELSE d.vals[n]
           /\ IF k = 0 /\ ~d.bad
              THEN UNCHANGED <<mod_unpack_pc, mod_listen_pc>>
              ELSE /\ mod_unpack_pc' = "ValueError"
                   /\ mod_listen_pc' = Cancelled(mod_listen_pc)
    /\ UNCHANGED <<file, logged, server_vars, logger_vars, reader_vars,
                   cli_vars, fields_vars, plot_vars, mod_backlog,
                   mod_accepted, mod_tasks>>

\* listen(): the socket is bound and listens.
ModListenBind ==
    /\ mod_listen_pc = "start"
    /\ mod_listen_pc' = "accept"
    /\ UNCHANGED <<file, logged, server_vars, logger_vars, reader_vars,
                   cli_vars, fields_vars, plot_vars, mod_unpack_pc,
                   mod_offset, mod_unpacker, mod_last_log, mod_backlog,
                   mod_accepted, mod_tasks>>

\* A client connects to the listening socket.
ModConnect ==
    /\ mod_listen_pc = "accept"
    /\ mod_backlog + mod_accepted < MaxConnects
    /\ mod_backlog' = mod_backlog + 1
    /\ UNCHANGED <<file, logged, server_vars, logger_vars, reader_vars,
                   cli_vars, fields_vars, plot_vars, mod_unpack_pc,
                   mod_offset, mod_unpacker, mod_last_log, mod_listen_pc,
                   mod_accepted, mod_tasks>>

\* Variant of Handler: loop.create_task(serve_client(client_socket,
\* address)).
HandlerServeClient == "serve_client"

\* The function that listen() calls with the accepted socket and its
\* address: "loop.create_task(serve(client_socket, address))".
Handler == "serve"

\* listen(): sock_accept returns a connection.  serve(client_socket,
\* address) is no coroutine function: it is called before create_task, and
\* its find_log_file raises TypeError in os.path.exists(log_path), the path
\* being a socket.  The exception leaves listen, and main with it.
ModListenAccept ==
    /\ mod_listen_pc = "accept"
    /\ mod_backlog > 0
    /\ mod_backlog' = mod_backlog - 1
    /\ mod_accepted' = mod_accepted + 1
    /\ IF Handler = "serve_client"
       THEN /\ mod_tasks' = mod_tasks + 1
            /\ UNCHANGED <<mod_listen_pc, mod_unpack_pc>>
       ELSE /\ mod_listen_pc' = "TypeError"
            /\ mod_unpack_pc' = Cancelled(mod_unpack_pc)
            /\ UNCHANGED mod_tasks
    /\ UNCHANGED <<file, logged, server_vars, logger_vars, reader_vars,
                   cli_vars, fields_vars, plot_vars, mod_offset, mod_unpacker,
                   mod_last_log>>

(***************************************************************************)
(* Specifications.                                                         *)
(***************************************************************************)
\* A step of a task of the server's event loop.
ServerStep ==
    \/ UnpackOpen \/ UnpackSeek \/ UnpackRead \/ UnpackWake
    \/ ListenBind \/ ListenAccept
    \/ \E c \in Conns : ServeStart(c) \/ ServeRecv(c) \/ ServeWake(c)

Next ==
    \/ LoggerWrite(MaxLogged)
    \/ UnpackOpen
    \/ UnpackSeek
    \/ UnpackRead
    \/ UnpackWake
    \/ ListenBind
    \/ ListenAccept
    \/ \E c \in Conns : ServeStart(c)
    \/ \E c \in Conns : ServeRecv(c)
    \/ \E c \in Conns : ServeWake(c)
    \/ StopCall
    \/ StopReturn
    \/ \E c \in Clients : ClientConnect(c)
    \/ \E c \in Clients : ClientSend(c, Requests)
    \/ \E c \in Clients : ClientClose(c)
    \/ \E c \in Clients : ClientReset(c)

\* The server with everything its environment can do.
Spec == Init /\ [][Next]_vars

\* Tailing and serving: the logger writes, a client connects, asks for the
\* latest record and leaves; nobody stops the server.
TailNext ==
    \/ LoggerWrite(MaxLogged)
    \/ UnpackOpen
    \/ UnpackSeek
    \/ UnpackRead
    \/ UnpackWake
    \/ ListenBind
    \/ ListenAccept
    \/ \E c \in Conns : ServeStart(c)
    \/ \E c \in Conns : ServeRecv(c)
    \/ \E c \in Conns : ServeWake(c)
    \/ ClientConnect(1)
    \/ ClientSend(1, {GET})
    \/ ClientClose(1)

TailSpec == Init /\ [][TailNext]_vars

\* The life cycle: the clients and stop() do everything they can, next to a
\* log file that stays empty.
LifeInit == Init /\ logged = <<>>

LifeNext ==
    \/ UnpackOpen
    \/ UnpackSeek
    \/ UnpackRead
    \/ UnpackWake
    \/ ListenBind
    \/ ListenAccept
    \/ \E c \in Conns : ServeStart(c)
    \/ \E c \in Conns : ServeRecv(c)
    \/ \E c \in Conns : ServeWake(c)
    \/ StopCall
    \/ StopReturn
    \/ \E c \in Clients : ClientConnect(c)
    \/ \E c \in Clients : ClientSend(c, Requests)
    \/ \E c \in Clients : ClientClose(c)
    \/ \E c \in Clients : ClientReset(c)

LifeSpec == LifeInit /\ [][LifeNext]_vars

\* The event loop runs every task that can run; the logger, the clients and
\* the caller of stop() owe nothing.
Fairness ==
    /\ WF_vars(UnpackOpen) /\ WF_vars(UnpackSeek)
    /\ WF_vars(UnpackRead) /\ WF_vars(UnpackWake)
    /\ WF_vars(ListenBind) /\ WF_vars(ListenAccept)
    /\ \A c \in Conns :
           /\ WF_vars(ServeStart(c))
           /\ WF_vars(ServeRecv(c))
           /\ WF_vars(ServeWake(c))
    /\ WF_vars(StopReturn)

\* The life cycle with one client, under the fairness of the event loop.
StopNext ==
    \/ UnpackOpen
    \/ UnpackSeek
    \/ UnpackRead
    \/ UnpackWake
    \/ ListenBind
    \/ ListenAccept
    \/ \E c \in Conns : ServeStart(c)
    \/ \E c \in Conns : ServeRecv(c)
    \/ \E c \in Conns : ServeWake(c)
    \/ StopCall
    \/ StopReturn
    \/ ClientConnect(1)
    \/ ClientSend(1, Requests)
    \/ ClientClose(1)

StopFairSpec == LifeInit /\ [][StopNext]_vars /\ Fairness

\* The record of a log file that exists before the logger is constructed; no
\* message that is put is equal to it.
Before == Rec(2)

\* Shutdown next to a log file that is written: the logger writes, a client
\* connects and asks for the latest record, stop() is called.
ShutNext ==
    \/ LoggerWrite(MaxHangLogged)
    \/ UnpackOpen
    \/ UnpackSeek
    \/ UnpackRead
    \/ UnpackWake
    \/ ListenBind
    \/ ListenAccept
    \/ \E c \in Conns : ServeStart(c)
    \/ \E c \in Conns : ServeRecv(c)
    \/ \E c \in Conns : ServeWake(c)
    \/ StopCall
    \/ StopReturn
    \/ ClientConnect(1)
    \/ ClientSend(1, {GET})

ShutSpec == LifeInit /\ [][ShutNext]_vars

\* A StreamClient reads: the logger writes, the client connects and calls
\* read(), stop() is called.
ReadNext ==
    \/ LoggerWrite(MaxHangLogged)
    \/ UnpackOpen
    \/ UnpackSeek
    \/ UnpackRead
    \/ UnpackWake
    \/ ListenBind
    \/ ListenAccept
    \/ \E c \in Conns : ServeStart(c)
    \/ \E c \in Conns : ServeRecv(c)
    \/ \E c \in Conns : ServeWake(c)
    \/ StopCall
    \/ StopReturn
    \/ ReaderInit
    \/ ReadCall
    \/ ReadRecv

ReadSpec == LifeInit /\ [][ReadNext]_vars

\* Dumping a log file: dump_log reads the file that holds the records logged
\* so far, while the logger may go on writing.
DumpNext ==
    \/ LoggerWrite(MaxLogged)
    \/ DumpCall
    \/ DumpRead

DumpSpec == Init /\ [][DumpNext]_vars

\* Filtering: filter_fields is called again and again.
FieldsNext ==
    \/ FilterCall
    \/ FilterFields

FieldsSpec == LifeInit /\ [][FieldsNext]_vars

\* Plotting: values arrive as time passes, and the plot is paused and
\* resumed.
PlotNext ==
    \/ ClockTick
    \/ PlotPause
    \/ HandleUpdate

PlotSpec == LifeInit /\ [][PlotNext]_vars

\* The server of mpacklog.cli.server: the logger writes, serve is called,
\* clients connect.
ModNext ==
    \/ ObsLoggerWrite
    \/ ModServe
    \/ ModUnpackSeek
    \/ ModUnpackRead
    \/ ModListenBind
    \/ ModConnect
    \/ ModListenAccept

ModSpec == Init /\ [][ModNext]_vars

\* A logger on its own: it is constructed, on a path where there is no file
\* or a file with a record; messages are put, the asynchronous loggers are
\* stopped and their write() and flush() called, SyncLogger writes.
LogInit ==
    /\ \E before \in BOOLEAN :
           /\ exists = before
           /\ logged = IF before THEN <<Before>> ELSE <<>>
           /\ file = IF before THEN Pack(Before) ELSE <<>>
    /\ LoggerCreated("none")
    /\ ServerCreated
    /\ ReaderCreated
    /\ DumpCreated
    /\ FieldsCreated
    /\ PlotCreated
    /\ ModuleCreated

LogNext ==
    \/ LoggerInit
    \/ LoggerPut
    \/ LoggerStop
    \/ WriteCall
    \/ WriteOpened
    \/ WriteGot
    \/ WriteWritten
    \/ WriteFlushed
    \/ WriteClosed
    \/ SyncPut
    \/ SyncWrite

LogSpec == LogInit /\ [][LogNext]_vars

\* The event loop runs write() whenever the await that suspends it is over;
\* whoever puts messages owes nothing.
LogFairness ==
    /\ WF_vars(WriteOpened)
    /\ WF_vars(WriteGot)
    /\ WF_vars(WriteWritten)
    /\ WF_vars(WriteFlushed)
    /\ WF_vars(WriteClosed)

LogFairSpec == LogInit /\ [][LogNext]_vars /\ LogFairness

\* Two clients at a time: the logger writes, two clients connect and ask for
\* the latest record; nobody stops the server.
PairNext ==
    \/ LoggerWrite(MaxLogged)
    \/ UnpackOpen
    \/ UnpackSeek
    \/ UnpackRead
    \/ UnpackWake
    \/ ListenBind
    \/ ListenAccept
    \/ \E c \in Conns : ServeStart(c)
    \/ \E c \in Conns : ServeRecv(c)
    \/ \E c \in Conns : ServeWake(c)
    \/ \E c \in {1, 2} : ClientConnect(c)
    \/ \E c \in {1, 2} : ClientSend(c, {GET})

PairSpec == LifeInit /\ [][PairNext]_vars

\* Fairness, for a log file that is written.  UnpackRead is enabled exactly
\* when unpack_pc = "read" and every UnpackRead step leaves "read", so that
\* WF_vars(UnpackRead) is []<>(unpack_pc # "read"); it is stated in this form,
\* which needs no ENABLED of the decoding of the file.
TailFairness ==
    /\ WF_vars(UnpackOpen) /\ WF_vars(UnpackSeek)
    /\ []<>(unpack_pc # "read") /\ WF_vars(UnpackWake)
    /\ WF_vars(ListenBind) /\ WF_vars(ListenAccept)
    /\ \A c \in Conns :
           /\ WF_vars(ServeStart(c))
           /\ WF_vars(ServeRecv(c))
           /\ WF_vars(ServeWake(c))

\* A client that hangs: client 1 connects and never sends, client 2 connects
\* and reads, the logger writes; under the fairness of the event loop.
HangNext ==
    \/ LoggerWrite(MaxHangLogged)
    \/ UnpackOpen
    \/ UnpackSeek
    \/ UnpackRead
    \/ UnpackWake
    \/ ListenBind
    \/ ListenAccept
    \/ \E c \in Conns : ServeStart(c)
    \/ \E c \in Conns : ServeRecv(c)
    \/ \E c \in Conns : ServeWake(c)
    \/ ClientConnect(1)
    \/ ClientConnect(2)
    \/ ClientRead(2)

HangFairSpec == LifeInit /\ [][HangNext]_vars /\ TailFairness

(***************************************************************************)
(* Properties.                                                             *)
(***************************************************************************)
\* unpack() has opened the file and sought its end.
HasSought == unpack_pc \notin {"start", "seek"}

\* unpack() has read every byte of the file.
PolledPastEnd == HasSought /\ offset = Len(file)

\* The indexes of the values appended since unpack() sought the end.
NewIndexes == (at_seek + 1)..Len(logged)

\* This step is serve() of connection c receiving bytes.
RecvStep(c) == serve_pc[c] = "recv" /\ inbox[c] # <<>> /\ inbox'[c] = <<>>

\* This step is serve() of connection c receiving a get request.
GetStep(c) == RecvStep(c) /\ ValidUtf8(inbox[c]) /\ Strip(inbox[c]) = GET

\* This step is serve() of connection c receiving a stop request.
StopStep(c) == RecvStep(c) /\ ValidUtf8(inbox[c]) /\ Strip(inbox[c]) = STOP

\* In this step a sock_sendall on connection c returns.
Replied(c) == nreplies'[c] = nreplies[c] + 1

\* The get received in this step is answered, by these bytes: the send
\* returns if the peer is still there, and a send that returns sent them.
AnsweredWith(c, bytes) ==
    /\ peer[c] = "open" => Replied(c)
    /\ Replied(c) => lastreply'[c] = bytes

\* v is a dictionary that was written to the log file.
WasLogged(v) == \E i \in 1..Len(logged) : IsDict(logged[i]) /\ logged[i] = v

\* C1: once unpack() has sought the end of the file, records R1..Rn have
\* been appended after that and unpack() has read up to the last byte, a get
\* request is answered with the encoding of Rn.
C1_LatestServed ==
    [][\A c \in Conns :
           ( /\ GetStep(c)
             /\ PolledPastEnd
             /\ NewIndexes # {}
             /\ \A i \in NewIndexes : IsDict(logged[i]) )
           => AnsweredWith(c, Pack(Last(logged)))]_vars

\* C1, its case: two records were appended after the seek, unpack() has read
\* them and a get was answered with the second.
C1_Witness ==
    /\ PolledPastEnd
    /\ Len(logged) >= at_seek + 2
    /\ \A i \in NewIndexes : IsDict(logged[i])
    /\ \E c \in Conns : nreplies[c] > 0 /\ lastreply[c] = Pack(Last(logged))

\* C2: as long as the unpacker has yielded no value, a get request is
\* answered, with the encoding of the empty mapping (the byte 0x80).
C2_EmptyBeforeFirstRecord ==
    [][\A c \in Conns :
           (GetStep(c) /\ ndecoded = 0) => AnsweredWith(c, <<128>>)]_vars

\* C2, its case: a get was answered with 0x80 before any value was decoded,
\* with unpack() polling.
C2_Witness ==
    /\ ndecoded = 0
    /\ unpack_pc = "sleep"
    /\ \E c \in Conns : nreplies[c] > 0 /\ lastreply[c] = <<128>>

\* C3: last_log is the empty mapping or a dictionary that was written to the
\* log file, and every reply is the complete encoding of one such value.
C3_NoTornRead ==
    /\ last_log = EmptyMap \/ WasLogged(last_log)
    /\ \A c \in Conns :
           nreplies[c] > 0 =>
               LET d == Drain(lastreply[c]) IN
               /\ d.rest = <<>> /\ ~d.bad /\ Len(d.vals) = 1
               /\ d.vals[1] = EmptyMap \/ WasLogged(d.vals[1])

\* C3, its case: a record was served while the unpacker held the first bytes
\* of the next one.
C3_Witness ==
    /\ unpacker # <<>>
    /\ last_log # EmptyMap
    /\ \E c \in Conns : nreplies[c] > 0 /\ lastreply[c] = Pack(last_log)

\* C4: a value that is no mapping is skipped: once unpack() has read every
\* byte, last_log is the last dictionary appended since the seek, whatever
\* was appended before it.
C4_MalformedSkipped ==
    (PolledPastEnd /\ \E i \in NewIndexes : IsDict(logged[i]))
    => last_log =
           logged[CHOOSE i \in NewIndexes :
                      /\ IsDict(logged[i])
                      /\ \A j \in NewIndexes : IsDict(logged[j]) => j <= i]

C9_StartsAtEnd ==
    unpack_pc # "start" =>
        \A i \in 1..at_open :
            /\ last_log # logged[i]
            /\ \A c \in Conns :
                   nreplies[c] > 0 => lastreply[c] # Pack(logged[i])

\* C9, its case: records were in the file at the open, and a record appended
\* later was assigned and served.
C9_Witness ==
    /\ at_open >= 1
    /\ \E i \in NewIndexes :
           /\ last_log = logged[i]
           /\ \E c \in Conns : nreplies[c] > 0 /\ lastreply[c] = Pack(logged[i])

\* C5: stop() called while listen() waits in sock_accept returns, whether
\* or not a client ever connected.
C5_StopReturns == (stop_pc = "wait") ~> (stop_pc = "returned")

\* C5, its case: stop() has returned and no client ever connected.
C5_Witness == stop_pc = "returned" /\ nconnects = 0

\* C6: when stop() has returned, listen() has left its loop and unpack() is
\* not reading: no accept and no file read is still to complete.
C6_LoopsExitedAtReturn ==
    stop_pc = "returned" => listen_pc # "accept" /\ unpack_pc # "read"

\* C7: once a stop request of a client has cleared the flag and the tasks of
\* the server have run as far as they can without a further connection,
\* unpack() and listen() have ended, the listening socket is closed and a
\* connection attempt fails.
C7_ClientStopShutsDown ==
    (~keep_going /\ stop_pc = "idle" /\ ~ENABLED ServerStep)
    => /\ unpack_pc = "done"
       /\ listen_pc = "done"
       /\ \A c \in Clients : ~ENABLED ClientConnect(c)

\* C10: a stop request clears the flag, sends nothing and leaves serve() at
\* its rate.sleep(); from there with the flag cleared serve() does nothing
\* but close the connection, and it does close it; a cleared flag stays
\* cleared.
C10_StopRequest ==
    /\ [][/\ \A c \in Conns :
                 StopStep(c) => /\ ~keep_going'
                                /\ nreplies'[c] = nreplies[c]
                                /\ serve_pc'[c] = "sleep"
          /\ \A c \in Conns :
                 ( /\ serve_pc[c] = "sleep"
                   /\ ~keep_going
                   /\ serve_pc'[c] # "sleep" )
                 => /\ serve_pc'[c] = "closed"
                    /\ nreplies'[c] = nreplies[c]
          /\ ~keep_going => ~keep_going']_vars
    /\ \A c \in Conns :
           (serve_pc[c] = "sleep" /\ ~keep_going) ~> (serve_pc[c] = "closed")

\* C10, its case: the stop request of a client cleared the flag and its
\* connection was closed with no reply sent.
C10_Witness ==
    /\ ~keep_going
    /\ stop_pc = "idle"
    /\ \E c \in Clients : serve_pc[c] = "closed" /\ nreplies[c] = 0 /\ nsent > 0

\* This step is serve() of connection c receiving a request that is neither
\* get nor stop, or bytes that are no UTF-8 text.
IgnoredStep(c) ==
    /\ RecvStep(c)
    /\ peer[c] # "reset"
    /\ ~ValidUtf8(inbox[c]) \/ Strip(inbox[c]) \notin {GET, STOP}

\* C11: with the flag set, a request that is neither get nor stop, or that
\* is no UTF-8 text, sends nothing and changes neither the flag nor last_log;
\* serve() goes on to the next sock_recv on the same connection, where a get
\* is answered with the encoding of last_log.
C11_OtherRequestIgnored ==
    [][\A c \in Conns :
           /\ (IgnoredStep(c) /\ keep_going)
              => /\ nreplies' = nreplies
                 /\ lastreply' = lastreply
                 /\ keep_going'
                 /\ last_log' = last_log
                 /\ serve_pc'[c] \in {"sleep", "recv"}
           /\ (serve_pc[c] = "sleep" /\ keep_going /\ serve_pc'[c] # "sleep")
              => serve_pc'[c] = "recv"
           /\ GetStep(c) => AnsweredWith(c, Pack(last_log))]_vars

\* C11, its case: on the only connection there has been, a first request was
\* received and ignored, with no reply and the flag still set, and serve()
\* awaits sock_recv again, where a get has arrived.
C11_Witness ==
    /\ nconnects = 1
    /\ nsent = 2
    /\ keep_going
    /\ \E c \in Clients :
           /\ serve_pc[c] = "recv"
           /\ inbox[c] = GET
           /\ nreplies[c] = 0
           /\ peer[c] = "open"

\* This step is the sock_recv of serve() of connection c returning no bytes.
ZeroReadStep(c) ==
    /\ serve_pc[c] = "recv"
    /\ peer[c] = "closed"
    /\ inbox[c] = <<>>
    /\ serve_pc'[c] # "recv"

\* This step is a sock_sendall of serve() of connection c raising
\* BrokenPipeError.
BrokenPipeStep(c) ==
    /\ GetStep(c)
    /\ peer[c] = "closed"
    /\ ~Replied(c)

\* This step is the sock_recv of serve() of connection c raising
\* ConnectionResetError.
ResetStep(c) ==
    /\ serve_pc[c] = "recv"
    /\ peer[c] = "reset"
    /\ serve_pc'[c] # "recv"

\* C12: a zero-length read, a broken pipe or a connection reset ends serve()
\* of that connection with its socket closed, and changes neither last_log,
\* the flag, unpack(), listen() nor any other connection.
C12_FaultEndsOnlyThatConnection ==
    [][\A c \in Conns :
           (ZeroReadStep(c) \/ BrokenPipeStep(c) \/ ResetStep(c))
           => /\ serve_pc'[c] = "closed"
              /\ last_log' = last_log
              /\ keep_going' = keep_going
              /\ unpack_pc' = unpack_pc
              /\ listen_pc' = listen_pc
              /\ \A d \in Conns \ {c} :
                     /\ serve_pc'[d] = serve_pc[d]
                     /\ inbox'[d] = inbox[d]
                     /\ nreplies'[d] = nreplies[d]
                     /\ lastreply'[d] = lastreply[d]]_vars

\* C16: __stopped never exceeds 2, and it is 2 only when both unpack() and
\* listen() have ended.
C16_CounterCountsLoops ==
    /\ stopped <= 2
    /\ stopped = 2 => /\ unpack_pc \in {"done", "failed"}
                      /\ listen_pc = "done"

\* C17: once stop() has returned and the tasks of the server have run as far
\* as they can without anything further from the clients, no serve() is
\* still in its loop.
C17_ServeLoopsEndAfterStop ==
    (stop_pc = "returned" /\ ~ENABLED ServerStep)
    => \A c \in Clients : serve_pc[c] \notin {"task", "recv", "sleep"}

\* C14: a poll that yields two records or more leaves the last of them in
\* last_log, and no reply is the encoding of a record that a later record of
\* its poll replaced.
C14_LastOfPollWins ==
    /\ [][(ndecoded' >= ndecoded + 2 /\ unpack_pc' = "sleep")
            => last_log' = logged[at_seek + ndecoded']]_vars
    /\ [](\A c \in Conns :
              nreplies[c] > 0 =>
                  \A j \in discarded : lastreply[c] # Pack(logged[j]))

\* C14, its case: the last poll yielded two records or more, and a get
\* received after it was answered with the last of them.
C14_Witness ==
    /\ (at_seek + ndecoded - 1) \in discarded
    /\ last_log = logged[at_seek + ndecoded]
    /\ \E c \in Conns :
           /\ nreplies[c] > 0
           /\ seen[c] = ndecoded
           /\ lastreply[c] = Pack(last_log)

\* The reply is the complete encoding of one value, the empty mapping or a
\* dictionary that was written to the log file.
WholeRecord(bytes) ==
    LET d == Drain(bytes) IN
    /\ d.rest = <<>> /\ ~d.bad /\ Len(d.vals) = 1
    /\ d.vals[1] = EmptyMap \/ WasLogged(d.vals[1])

\* C13 as stated: when two clients have each had a get answered, they have
\* received the same bytes, whatever unpack() did between the two requests.
C13_SameBytesAlways ==
    (nreplies[1] > 0 /\ nreplies[2] > 0) => lastreply[1] = lastreply[2]

\* C13, amended: when two clients have each had a get answered and the
\* unpacker yielded nothing between the two requests, they have received the
\* same bytes; and every reply is the complete encoding of one value of
\* last_log.
C13_SameBytesIfNoUpdate ==
    /\ (nreplies[1] > 0 /\ nreplies[2] > 0 /\ seen[1] = seen[2])
       => lastreply[1] = lastreply[2]
    /\ \A c \in Conns : nreplies[c] > 0 => WholeRecord(lastreply[c])

\* C13, its case: two clients are connected at the same time, each had a get
\* answered with the same record, the one unpack() decoded last.
C13_Witness ==
    /\ \A c \in {1, 2} : serve_pc[c] \in {"recv", "sleep"} /\ nreplies[c] > 0
    /\ seen[1] = seen[2]
    /\ ndecoded > 0
    /\ last_log # EmptyMap
    /\ lastreply[1] = Pack(last_log)
    /\ lastreply[2] = Pack(last_log)

\* serve() of connection c awaits a request and none has come.
Hung(c) == serve_pc[c] = "recv" /\ inbox[c] = <<>> /\ peer[c] = "open"

\* C15: while serve() of client 1 waits for a request that does not come,
\* listen() accepts the connection of client 2, a get of client 2 is
\* received and answered with the encoding of last_log, and unpack() decodes
\* the records that are appended.
C15_HungClientStallsNobody ==
    /\ (Hung(1) /\ serve_pc[2] = "backlog") ~> (serve_pc[2] = "recv")
    /\ (Hung(1) /\ inbox[2] = GET)
       ~> (inbox[2] = <<>> /\ nreplies[2] > 0 /\ lastreply[2] = Pack(last_log))
    /\ \A i \in 1..MaxHangLogged :
           ( /\ Hung(1)
             /\ HasSought
             /\ at_seek < i /\ i <= Len(logged)
             /\ \A j \in (at_seek + 1)..i : IsDict(logged[j]) )
           ~> (ndecoded >= i - at_seek /\ last_log # EmptyMap)

\* C15, its case: serve() of client 1 waits for a request that has not come;
\* client 2 connected after it and has had a get answered with a record that
\* unpack() decoded.
C15_Witness ==
    /\ Hung(1)
    /\ nsent > 0
    /\ nreplies[2] > 0
    /\ last_log # EmptyMap
    /\ lastreply[2] = Pack(last_log)

\* C18: write() of an asynchronous logger that opens its file with the flag
\* cleared leaves the file in existence and empty, takes no message and goes
\* on to close the file and return, without awaiting queue.get();
\* SyncLogger.write() with an empty queue leaves the file in existence and
\* writes nothing.
C18_NothingToWrite ==
    [][/\ (write_pc = "open" /\ write_pc' # "open" /\ ~wflush /\ ~lkeep)
          => /\ exists'
             /\ file' = <<>>
             /\ queue' = queue
             /\ write_pc' = "close"
       /\ (write_pc = "close" /\ write_pc' # "close")
          => /\ write_pc' = "returned"
             /\ file' = file
             /\ queue' = queue
       /\ ( /\ lkind = "SyncLogger"
            /\ ncalls' = ncalls + 1
            /\ puts' = puts
            /\ queue = <<>> )
          => /\ exists'
             /\ file' = file
             /\ queue' = <<>>]_vars

\* C18, its case: the only write() of an asynchronous logger has returned
\* without having taken any of the messages that were put: it found the flag
\* cleared; the file exists and is empty.
C18_Witness ==
    /\ lkind \in Asynchronous
    /\ ~lkeep
    /\ ~wflush
    /\ ncalls = 1
    /\ write_pc = "returned"
    /\ puts # <<>>
    /\ queue = puts
    /\ exists
    /\ file = <<>>

\* C19: a put that does not write appends its message at the tail of the
\* queue and changes nothing else: not the file, its existence, the flag or
\* the state of write().
C19_PutOnlyAppends ==
    [][(puts' # puts /\ ncalls' = ncalls)
       => /\ queue' = Append(queue, Last(puts'))
          /\ queue' # <<>>
          /\ file' = file
          /\ logged' = logged
          /\ exists' = exists
          /\ lkeep' = lkeep
          /\ write_pc' = write_pc
          /\ msg' = msg]_vars

\* C19, its case: two different messages were put and are in the queue in
\* that order, with no file.
C19_Witness ==
    /\ Len(queue) = 2
    /\ queue = puts
    /\ queue[1] # queue[2]
    /\ ~exists

\* Every message that was put to the SyncLogger has been written.
SyncWritten == lkind = "SyncLogger" /\ puts # <<>> /\ queue = <<>>

\* C20 as stated: once SyncLogger has written the messages m1..mn that were
\* put, read_log with any chunk size yields m1..mn, and so does msgpack.load.
C20_RoundTripAnyReader ==
    SyncWritten
    => /\ \A chunk_size \in 1..MaxReadChunk :
              ReadLog(file, chunk_size) = [vals |-> puts, bad |-> FALSE]
       /\ MsgpackLoad(file).st = "ok"
       /\ <<MsgpackLoad(file).val>> = puts

\* C20, amended: once SyncLogger has written the messages m1..mn that were
\* put, read_log with any chunk size yields m1..mn; msgpack.load returns m1
\* when n = 1 and raises ExtraData when n > 1.
C20_RoundTripReadLog ==
    SyncWritten
    => /\ \A chunk_size \in 1..MaxReadChunk :
              ReadLog(file, chunk_size) = [vals |-> puts, bad |-> FALSE]
       /\ Len(puts) = 1 => MsgpackLoad(file) = [st |-> "ok", val |-> puts[1]]
       /\ Len(puts) > 1 => MsgpackLoad(file).st = "ExtraData"

\* C20, its case: SyncLogger has written two different messages, one of them
\* with a nested mapping or a sequence, and read_log yields them byte by
\* byte.
C20_Witness ==
    /\ SyncWritten
    /\ Len(puts) >= 2
    /\ puts[1] # puts[2]
    /\ \E i \in 1..Len(puts) :
           /\ puts[i].kind = "map"
           /\ puts[i].val # <<>>
           /\ puts[i].val[1][2].kind \in {"map", "arr"}
    /\ ReadLog(file, 1).vals = puts

\* The messages that write() has taken from the queue: those that were put,
\* less those that are still in the queue.
Dequeued == SubSeq(puts, 1, Len(puts) - Len(queue))

\* C21: the constructor of SyncLogger on a path that exists raises
\* FileExistsError and changes nothing, the file least of all; no logger
\* having been made, nothing is put or written and the file stays as it was;
\* the file of a SyncLogger holds the messages it has written and nothing
\* else.
C21_NoSyncLoggerOnExistingFile ==
    /\ [][(lkind = "none" /\ exists /\ lkind' \notin Asynchronous \cup {"none"})
          => /\ lkind' = "FileExistsError"
             /\ file' = file
             /\ exists' = exists]_vars
    /\ [](lkind = "FileExistsError"
          => /\ file = Pack(Before)
             /\ exists
             /\ puts = <<>>
             /\ queue = <<>>
             /\ ncalls = 0)
    /\ [](lkind = "SyncLogger" => file = PackAll(Dequeued))

\* C21, its case: the constructor of SyncLogger has raised FileExistsError on
\* a path that exists, and the file is as it was.
C21_Witness == lkind = "FileExistsError" /\ exists /\ file = Pack(Before)

RECURSIVE Repeat(_, _)
\* The bytes of k sends of the same request, one after the other.
Repeat(request, k) == IF k = 0 THEN <<>> ELSE request \o Repeat(request, k - 1)

\* C22: with the flag set and the client there, a sock_recv that returns the
\* bytes of k get requests is followed by k replies on that connection.
C22_EveryGetAnswered ==
    [][\A c \in Conns : \A k \in 1..MaxSends :
           ( /\ RecvStep(c)
             /\ inbox[c] = Repeat(GET, k)
             /\ keep_going
             /\ peer[c] = "open" )
           => nreplies'[c] = nreplies[c] + k]_vars

\* C23: with the flag cleared, serve() of a connection never starts to await
\* sock_recv; a sock_recv that was awaited when the flag was cleared returns
\* once, and the request is processed up to rate.sleep() or the close; from
\* rate.sleep() serve() goes to the close.  So a connection reads one request
\* at most after the flag was cleared.  The task of a connection that was
\* accepted with the flag cleared goes from its start to the close, with no
\* byte read and no reply sent on the connection.
C23_OneRequestAfterClear ==
    [][\A c \in Conns :
           ~keep_going =>
               /\ serve_pc[c] # "recv" => serve_pc'[c] # "recv"
               /\ (serve_pc[c] = "recv" /\ serve_pc'[c] # "recv")
                  => serve_pc'[c] \in {"sleep", "closed"}
               /\ (serve_pc[c] = "sleep" /\ serve_pc'[c] # "sleep")
                  => /\ serve_pc'[c] = "closed"
                     /\ nreplies'[c] = nreplies[c]
                     /\ inbox'[c] = inbox[c]
               /\ serve_pc[c] = "task"
                  => /\ nreplies[c] = 0
                     /\ nreplies'[c] = 0
                     /\ inbox'[c] = inbox[c] \/ serve_pc'[c] = "task"
                     /\ serve_pc'[c] \in {"task", "closed"}]_vars

\* C23, its case: stop() cleared the flag while serve() of a client awaited
\* sock_recv, and a get of that client has arrived since; the connection of
\* stop(), accepted after that, is closed with its request unread and no
\* reply.
C23_Witness ==
    /\ ~keep_going
    /\ stop_pc = "wait"
    /\ serve_pc[0] = "closed"
    /\ inbox[0] = STOP
    /\ nreplies[0] = 0
    /\ \E c \in Clients :
           serve_pc[c] = "recv" /\ inbox[c] = GET /\ peer[c] = "open"

\* C24: stop() never ends with an exception, whether or not the server
\* listens when it is called: its connect is not refused.
C24_StopNeverRaises == stop_pc # "refused"

\* C25: a file.read of unpack() that returns no bytes leaves last_log, the
\* position in the file and the bytes the unpacker holds as they were and
\* raises nothing: unpack() awaits rate.sleep(), and after it, the flag being
\* set, the next file.read.
C25_EmptyPollChangesNothing ==
    [][/\ (unpack_pc = "read" /\ unpack_pc' # "read" /\ FileRead(offset) = <<>>)
          => /\ last_log' = last_log
             /\ offset' = offset
             /\ unpacker' = unpacker
             /\ ndecoded' = ndecoded
             /\ unpack_pc' = "sleep"
       /\ (unpack_pc = "sleep" /\ unpack_pc' # "sleep" /\ keep_going)
          => unpack_pc' = "read"]_vars

\* C25, its case: unpack() sought the end of a file with records, nothing was
\* appended since, and a file.read has returned no bytes: unpack() sleeps.
C25_Witness ==
    /\ unpack_pc = "sleep"
    /\ offset > 0
    /\ offset = Len(file)
    /\ Len(logged) = at_seek
    /\ ndecoded = 0
    /\ last_log = EmptyMap

\* The number of bytes of the file up to the end of its k-th value.
EndOf(k) == Len(PackAll(SubSeq(logged, 1, k)))

\* The bytes that unpack() has read: those between the position it sought
\* and its position.
BytesRead == SubSeq(file, EndOf(at_seek) + 1, offset)

\* C26: the position of unpack() in the file never decreases; the bytes it
\* has fed to the unpacker are the bytes of the file from the position it
\* sought up to its position, once each and in order: they are the encodings
\* of the values the unpacker has yielded followed by the bytes it holds, the
\* first bytes of a value that is not complete; and a record is assigned to
\* last_log only in the poll that reads its last byte.
C26_EveryByteFedOnce ==
    /\ [][/\ offset' >= offset
          /\ (unpack_pc = "read" /\ last_log' # last_log)
             => \E k \in NewIndexes :
                    /\ last_log' = logged[k]
                    /\ offset < EndOf(k)
                    /\ EndOf(k) <= offset']_vars
    /\ [](HasSought
          => /\ offset <= Len(file)
             /\ BytesRead =
                    PackAll(SubSeq(logged, at_seek + 1, at_seek + ndecoded))
                    \o unpacker)

\* C26, its case: a file.read has ended inside a record: the unpacker holds
\* its first bytes, unpack() sleeps and last_log is the record before it.
C26_Witness ==
    /\ unpack_pc = "sleep"
    /\ unpacker # <<>>
    /\ offset < Len(file)
    /\ ndecoded >= 2
    /\ last_log = logged[at_seek + ndecoded]
    /\ EndOf(at_seek + ndecoded) < offset
    /\ offset < EndOf(at_seek + ndecoded + 1)

\* What serve(), listen(), stop() and the clients change.
service_vars == <<keep_going, stopped, listen_pc, backlog, conn_vars, stop_pc>>

\* What belongs to unpack(): the cell, the position in the file and the
\* bytes the unpacker holds.
cell_vars == <<last_log, offset, unpacker>>

\* C27: a step of serve(), of listen() or of stop() changes neither last_log,
\* the position of unpack() in the file nor the bytes its unpacker holds; they
\* change in steps of unpack() only, last_log in a step that read bytes.
C27_OnlyUnpackAssigns ==
    [][/\ service_vars' # service_vars => cell_vars' = cell_vars
       /\ cell_vars' # cell_vars
          => /\ unpack_pc \in {"start", "seek", "read"}
             /\ unpack_pc' # unpack_pc
       /\ last_log' # last_log
          => unpack_pc = "read" /\ offset' > offset]_vars

\* C27, its case: unpack() assigned a record, a get was answered with it and
\* stop() has shut the server down: last_log is still that record.
C27_Witness ==
    /\ stop_pc = "returned"
    /\ unpack_pc = "done"
    /\ ndecoded > 0
    /\ last_log = logged[at_seek + ndecoded]
    /\ \E c \in Clients :
           /\ serve_pc[c] = "closed"
           /\ nreplies[c] > 0
           /\ lastreply[c] = Pack(last_log)

\* The place in the log file of the record that a reply carries, 0 for the
\* empty mapping that last_log is before the first record.
ReplyIndex(bytes) ==
    IF bytes = Pack(EmptyMap) THEN 0
    ELSE CHOOSE i \in 1..Len(logged) : Pack(logged[i]) = bytes

\* C28: when a reply is sent, the record it carries was not appended to the
\* log file before the record of any reply that was sent earlier, on that
\* connection or another.
C28_RepliesNeverGoBack ==
    [][\A c \in Conns :
           Replied(c) =>
               \A d \in Conns :
                   nreplies[d] > 0 =>
                       ReplyIndex(lastreply[d])
                           <= ReplyIndex(lastreply'[c])]_vars

\* C28, its case: two connections have each had a get answered, the second
\* after unpack() replaced the record that the first was sent: the second
\* carries a record appended later.
C28_Witness ==
    \E c, d \in Clients :
        /\ nreplies[c] > 0
        /\ nreplies[d] > 0
        /\ seen[c] < seen[d]
        /\ ReplyIndex(lastreply[c]) >= 1
        /\ ReplyIndex(lastreply[c]) < ReplyIndex(lastreply[d])

\* A step that write() can take by itself, a queue.get() that waits for a
\* message not being one.
WriteStep ==
    \/ WriteOpened
    \/ WriteGot
    \/ WriteWritten
    \/ WriteFlushed
    \/ WriteClosed

\* C29: once stop() of an asynchronous logger has been called and its
\* write() has run as far as it can with the messages there are, write() has
\* closed the file and returned.
C29_WriteReturnsAfterStop ==
    ( /\ lkind \in Asynchronous
      /\ ~lkeep
      /\ write_pc # "idle"
      /\ ~ENABLED WriteStep )
    => write_pc = "returned"

\* The messages without the sentinel that ends write(), which is taken from
\* the queue and not written.
Written(messages) ==
    IF messages # <<>> /\ IsExit(Last(messages))
    THEN SubSeq(messages, 1, Len(messages) - 1)
    ELSE messages

\* The first write() of an asynchronous logger has opened the file, and
\* write() has not been called again.
FirstWrite ==
    /\ lkind \in Asynchronous
    /\ ncalls = 1
    /\ write_pc \notin {"idle", "open"}

\* C30 as stated: from the moment the first write() has opened the file and
\* until write() is called again, whenever write() is about to take a message
\* or has left its loop, the file holds the encodings of all the messages
\* taken from the queue, in the order they were put: none is skipped.
C30_FileIsAllDequeued ==
    (FirstWrite /\ write_pc \notin {"write", "flush"})
    => file = PackAll(Dequeued)

\* C30, amended: from the moment the first write() has opened the file and
\* until write() is called again, the file holds the encodings of the
\* messages taken from the queue, in the order they were put, each once: all
\* of them whenever write() is about to take a message or has left its loop,
\* all but the last, which is the one being written, in between; except the
\* sentinel {"exit": True}, which is taken, not written, and ends write().
C30_FileIsWhatWasDequeued ==
    /\ [](FirstWrite =>
              IF write_pc \in {"write", "flush"}
              THEN /\ Dequeued # <<>>
                   /\ msg = Last(Dequeued)
                   /\ file = PackAll(SubSeq(Dequeued, 1, Len(Dequeued) - 1))
              ELSE file = PackAll(Written(Dequeued)))
    /\ [][( /\ lkind \in Asynchronous
            /\ ncalls' = 1
            /\ queue # <<>>
            /\ queue' = Tail(queue) )
          => file' = PackAll(Dequeued)]_vars

\* C30, its case: the first write() has taken two different messages and
\* written them, and waits for the next: the file holds the encoding of the
\* first followed by that of the second.
C30_Witness ==
    /\ FirstWrite
    /\ write_pc = "get"
    /\ Len(puts) = 2
    /\ queue = <<>>
    /\ puts[1] # puts[2]
    /\ file = Pack(puts[1]) \o Pack(puts[2])
    /\ file # <<>>

\* The bytes a are the first bytes of b.
IsPrefix(a, b) == Len(a) <= Len(b) /\ SubSeq(b, 1, Len(a)) = a

\* C31: once the first write() or flush() of an asynchronous logger has
\* opened the file, no step of that or of a later write() or flush() takes
\* bytes away from the file: what the file holds stays a prefix of it.
C31_AppendOnlyAcrossCalls ==
    [][( /\ lkind \in Asynchronous
         /\ ncalls >= 1
         /\ ~(ncalls = 1 /\ write_pc = "open") )
       => IsPrefix(file, file')]_vars

\* This step is flush() leaving its loop.
FlushLeavesLoop ==
    wflush /\ write_pc \in {"open", "flush"} /\ write_pc' = "close"

\* The parts of C32 that hold as stated: flush() never awaits a message on
\* an empty queue, on an empty queue it goes from the open to the close
\* whatever the flag is, it writes the message it took after what the file
\* holds, and it returns.
FlushRuns ==
    /\ [](wflush => write_pc # "get")
    /\ [][/\ ( /\ wflush
               /\ write_pc = "open"
               /\ queue = <<>>
               /\ write_pc' # "open" )
             => /\ write_pc' = "close"
                /\ file' = <<>>
          /\ (wflush /\ write_pc = "flush" /\ write_pc' # "flush")
             => /\ msg = Last(Dequeued)
                /\ file' = file \o Pack(msg)]_vars
    /\ (wflush /\ write_pc = "open") ~> (write_pc = "returned")

\* C32 as stated: flush() takes the messages of the queue in order, writes
\* them and leaves its loop with the queue empty; it never awaits a message
\* on an empty queue, whatever the flag is; and it returns.
C32_FlushEmptiesQueue ==
    /\ FlushRuns
    /\ [][FlushLeavesLoop => queue' = <<>>]_vars

\* C32, amended: as stated, except that flush() also leaves its loop when it
\* takes the sentinel {"exit": True}, which it does not write, with the
\* messages behind the sentinel still in the queue.
C32_FlushEmptiesQueueOrExits ==
    /\ FlushRuns
    /\ [][FlushLeavesLoop
           => \/ queue' = <<>>
              \/ /\ queue # <<>>
                 /\ IsExit(Head(queue))
                 /\ queue' = Tail(queue)
                 /\ file' = IF write_pc = "open" THEN <<>>
                            ELSE file \o Pack(msg)]_vars

\* C32, its case: the only call was flush(), with the flag set and two
\* different messages in the queue; it has written both in order and
\* returned, and the queue is empty.
C32_Witness ==
    /\ lkind = "AsyncLogger"
    /\ wflush
    /\ lkeep
    /\ ncalls = 1
    /\ write_pc = "returned"
    /\ Len(puts) = 2
    /\ puts[1] # puts[2]
    /\ queue = <<>>
    /\ file = PackAll(puts)

\* C33: the records that the file of a SyncLogger holds, followed by the
\* messages in its queue, are the messages that were put, in the order they
\* were put; and when write() or put(message, write=True) returns the queue
\* is empty.
C33_FileThenQueueIsPuts ==
    /\ [](lkind = "SyncLogger"
          => /\ ~Drain(file).bad
             /\ Drain(file).rest = <<>>
             /\ Drain(file).vals \o queue = puts)
    /\ [][(lkind = "SyncLogger" /\ ncalls' = ncalls + 1) => queue' = <<>>]_vars

\* C33, its case: a SyncLogger has written the first of two different
\* messages to the file, and the second is in the queue.
C33_Witness ==
    /\ lkind = "SyncLogger"
    /\ ncalls >= 1
    /\ Len(puts) = 2
    /\ puts[1] # puts[2]
    /\ file = Pack(puts[1])
    /\ queue = <<puts[2]>>

\* The message {"exit": True}.
ExitMessage == MapVal(<< <<StrVal(EXIT), BoolVal(TRUE)>> >>)

\* This step is write() taking the sentinel from the queue.
TakesExit ==
    /\ lkind \in Asynchronous
    /\ write_pc \in {"open", "get", "flush"}
    /\ queue # <<>>
    /\ Head(queue) = ExitMessage
    /\ queue' = Tail(queue)

\* C34: when write() of an asynchronous logger takes the sentinel from the
\* queue it does not write it and goes on to close the file, the messages
\* behind the sentinel staying in the queue; the closing changes neither the
\* file nor the queue, and write() returns; the file never holds the
\* sentinel.
C34_ExitEndsWrite ==
    /\ [][/\ TakesExit
             => /\ write_pc' = "close"
                /\ msg' = msg
                /\ file' = CASE write_pc = "open" -> <<>>
                              [] write_pc = "flush" -> file \o Pack(msg)
                              [] write_pc = "get" -> file
          /\ (write_pc = "close" /\ write_pc' # "close")
             => /\ write_pc' = "returned"
                /\ file' = file
                /\ queue' = queue]_vars
    /\ [](lkind \in Asynchronous
          => \A i \in 1..Len(Drain(file).vals) :
                 Drain(file).vals[i] # ExitMessage)
    /\ (write_pc = "close") ~> (write_pc = "returned")

\* C34, its case: the sentinel and then another message were put, and
\* write(), called once with the flag set, has returned: the file is empty
\* and the other message is still in the queue.
C34_Witness ==
    /\ lkind \in Asynchronous
    /\ lkeep
    /\ ~wflush
    /\ ncalls = 1
    /\ write_pc = "returned"
    /\ Len(puts) = 2
    /\ puts[1] = ExitMessage
    /\ puts[2] # ExitMessage
    /\ queue = <<puts[2]>>
    /\ file = <<>>

\* C35: when a recv of read() brings the last byte of the reply, read()
\* returns the value that the reply encodes, the empty mapping included; and
\* read() returns None only when the server has closed the connection.
C35_ReadReturnsReply ==
    [][/\ ( /\ rd_pc = "recv"
            /\ rd_got' > rd_got
            /\ rd_got' = Len(lastreply[1]) )
          => /\ rd_pc' = "returned"
             /\ Pack(rd_result') = lastreply[1]
       /\ (rd_pc = "recv" /\ rd_pc' = "returned" /\ rd_result' = NilVal)
          => serve_pc[1] = "closed"]_vars

\* dump_log returns: its loop breaks at the end of the file.
DumpReturns == dump_pc = "read" /\ dump_pc' = "returned"

\* C36: when dump_log with follow=False returns, printer.process has been
\* called once per record of the log file, in file order, and printer.finish
\* has been called once.
C36_ProcessAllThenFinish ==
    [][DumpReturns => /\ ~follow
                      /\ processed' = logged
                      /\ nfinish' = 1]_vars

\* The field is present in the dictionary.
Present(collection, field) == GetFromField(collection, field).st = "ok"

\* The fields of the list that are present in the dictionary.
ListedPresent ==
    {i \in 1..Len(fields) : Present(dictionary, fields[i])}

\* C37: the dictionary that filter_fields returns for a list of fields that
\* is not empty holds, at the path of every listed field that is present in
\* the argument, the value that the argument holds there, and every key of
\* it is the first key of such a field.
C37_FilteredHoldsListedFields ==
    (filter_pc = "returned" /\ fields # <<>>)
        => /\ \A i \in ListedPresent :
                  GetFromField(output, fields[i])
                      = GetFromField(dictionary, fields[i])
           /\ \A j \in 1..Len(output.val) :
                  \E i \in ListedPresent :
                      output.val[j][1] = StrVal(Split(fields[i])[1])

\* The retained samples that are older than the history window of the
\* update that came last, whose time is the last of xdata.
OlderThanWindow ==
    {i \in 1..Len(xdata) : xdata[i] < Last(xdata) - HistoryDuration}

\* C38: after the updates of a plot, xdata and ydata have the same length,
\* the retained samples are in the order in which they arrived, and at most
\* one of them is older than the history window.
C38_AtMostOneBeforeWindow ==
    xdata # <<>>
        => /\ Len(xdata) = Len(ydata)
           /\ \A i, j \in 1..Len(ydata) :
                  i < j => ydata[i] < ydata[j] /\ xdata[i] <= xdata[j]
           /\ Cardinality(OlderThanWindow) <= 1

\* listen() of mpacklog.cli.server accepts a connection.
ModAccepts == mod_accepted' = mod_accepted + 1

\* C39: in mpacklog.cli.server, every connection that listen() accepts gets
\* a serve_client task, and listen() goes on accepting.
C39_AcceptedGetsServeClient ==
    [][ModAccepts => /\ mod_tasks' = mod_tasks + 1
                     /\ mod_listen_pc' = "accept"]_vars

=============================================================================
